---- MODULE Spec2Model ----
(***************************************************************************)
(* Verification model of the schema-validation core of resume-craft-be:    *)
(* ajvSchemaValidator (schema-ajv-validator), the custom keywords it       *)
(* registers, the CommonValidations schema factories and formatAjvErrors   *)
(* (common-validations), the two validation pipes built on them            *)
(* (nest/pipes) and cursor pagination (odm/helpers).                       *)
(*                                                                         *)
(* Conventions.  A JSON value is a record [t, v]; an object's v is the     *)
(* sequence of its <<key, value>> pairs in insertion order.  A schema is a *)
(* record that holds exactly the keywords the schema object holds;         *)
(* `properties` is a sequence of <<name, schema>> pairs, `errorMessage` is *)
(* [string |-> m] for the string form and [keywords |-> pairs,             *)
(* properties |-> pairs] for the object form.  A text (message, field) is  *)
(* a sequence of tokens, so that concatenation, prefix and containment are *)
(* computed; an instance path or schema path is the sequence of its        *)
(* '/'-separated segments.                                                 *)
(***************************************************************************)
EXTENDS Integers, Sequences, FiniteSets, TLC

VARIABLES
    compiled,   \* ajv's cache: the schema instances that hold a compiled validator
    compiles,   \* per schema instance, how many times ajv generated a validator for it
    slot,       \* per schema instance, validateFn.errors of its cached validator
    last,       \* per handler: the work it is about to do, or its latest call and outcome
    calls       \* number of calls made so far

vars == <<compiled, compiles, slot, last, calls>>

----------------------------------------------------------------------------
(* JSON values *)

Str(s) == [t |-> "string", v |-> s]
Num(n) == [t |-> "number", v |-> n]
Arr(a) == [t |-> "array", v |-> a]
Obj(o) == [t |-> "object", v |-> o]
JBool(b) == [t |-> "boolean", v |-> b]
JNull == [t |-> "null", v |-> "null"]
Undefined == [t |-> "undefined", v |-> "undefined"]

Has(r, k) == k \in DOMAIN r

HasKey(D, k) == D.t = "object" /\ \E i \in 1..Len(D.v) : D.v[i][1] = k

\* data[k] of JavaScript: undefined when data is no object or lacks the key
GetKey(D, k) ==
    IF HasKey(D, k)
    THEN D.v[CHOOSE i \in 1..Len(D.v) : D.v[i][1] = k][2]
    ELSE Undefined

\* the object without key k (delete data[k])
WithoutKey(D, k) ==
    LET Keep(p) == p[1] # k IN Obj(SelectSeq(D.v, Keep))

RECURSIVE Concat(_)
Concat(ss) == IF Len(ss) = 0 THEN <<>> ELSE Head(ss) \o Concat(Tail(ss))

\* Op applied to the value of v, which is computed once
Bind(v, Op(_)) == CHOOSE r \in {Op(x) : x \in {v}} : TRUE

IsPrefix(p, s) == Len(p) <= Len(s) /\ SubSeq(s, 1, Len(p)) = p

\* message.includes(word), on token sequences
Contains(text, words) == \E i \in 1..Len(text) : text[i] \in words

----------------------------------------------------------------------------
(* Strings of the model and the regular expressions ajv-formats applies    *)

validUUID == "123e4567-e89b-12d3-a456-426614174000"
validUUID2 == "987fcdeb-51a2-34d6-b789-012345678901"

\* the sample strings matching ajv-formats' uuid pattern
UuidStrings == {validUUID, validUUID2}

\* the sample strings matching ajv-formats' email pattern
EmailStrings == {"test@example.com"}

MatchesFormat(fmt, s) ==
    CASE fmt = "uuid" -> s \in UuidStrings
      [] fmt = "email" -> s \in EmailStrings
      [] OTHER -> TRUE

\* String.prototype.toLowerCase on the sample strings
ToLowerCase(s) ==
    CASE s = "Alpha" -> "alpha"
      [] s = "ALPHA" -> "alpha"
      [] s = "Beta" -> "beta"
      [] OTHER -> s

----------------------------------------------------------------------------
(* Custom keywords registered on the shared ajv instance.  Each predicate  *)
(* yields "pass", "fail" or "throw" (a TypeError raised while running it). *)

\* item.name.toLowerCase() raises unless item.name is a string
NameReadThrows(item) ==
    \/ item.t \in {"null", "undefined"}
    \/ GetKey(item, "name").t # "string"

Injective(keys) == \A i, j \in 1..Len(keys) : keys[i] = keys[j] => i = j

validateUniqueFieldOptionNames(data) ==
    IF data.t # "array" \/ Len(data.v) = 0 THEN "pass"
    ELSE IF \E i \in 1..Len(data.v) : NameReadThrows(data.v[i]) THEN "throw"
    ELSE LET names == [i \in 1..Len(data.v) |-> ToLowerCase(GetKey(data.v[i], "name").v)]
         IN IF Injective(names) THEN "pass" ELSE "fail"

\* validateUniqueEscalationOrders, validateUniqueSeverityLevels, validateUniquePolicyIds,
\* validateUniquePositions, validateUniqueTicketIds: data.map((item) => item[key]) and
\* new Set(keys).size === keys.length.  item[key] raises on null; a Set holds
\* numbers, strings and undefined by value.
validateUnique(key, data) ==
    IF data.t # "array" \/ Len(data.v) = 0 THEN "pass"
    ELSE IF \E i \in 1..Len(data.v) : data.v[i].t \in {"null", "undefined"} THEN "throw"
    ELSE LET keys == [i \in 1..Len(data.v) |-> GetKey(data.v[i], key)]
             Same(a, b) == a.t = b.t /\ a.v = b.v
         IN IF \A i, j \in 1..Len(keys) : Same(keys[i], keys[j]) => i = j
            THEN "pass" ELSE "fail"

\* variant: the orders are sorted before they are compared
validateFieldOptionOrdersSorted(data) ==
    IF data.t # "array" \/ Len(data.v) = 0 THEN "pass"
    ELSE IF \E i \in 1..Len(data.v) : data.v[i].t \in {"null", "undefined"} THEN "throw"
    ELSE IF \A n \in 1..Len(data.v) : \E i \in 1..Len(data.v) :
                GetKey(data.v[i], "order").t = "number" /\ GetKey(data.v[i], "order").v = n
         THEN "pass" ELSE "fail"

validateFieldOptionOrders(data) ==
    IF data.t # "array" \/ Len(data.v) = 0 THEN "pass"
    ELSE IF \E i \in 1..Len(data.v) : data.v[i].t \in {"null", "undefined"} THEN "throw"
    ELSE LET orders == [i \in 1..Len(data.v) |-> GetKey(data.v[i], "order")]
             \* order !== orders[index - 1] + 1; the earlier order is a number whenever
             \* no earlier index failed
             Breaks(index) ==
                 IF orders[index].t # "number" \/ orders[index - 1].t # "number" THEN TRUE
                 ELSE orders[index].v # orders[index - 1].v + 1
         IN IF orders[1].t # "number" \/ orders[1].v # 1 THEN "fail"
            ELSE IF \E index \in 2..Len(orders) : Breaks(index) THEN "fail" ELSE "pass"

\* the convertToMinutes local to schema-ajv-validator; unit is a string here
convertToMinutesKw(value, unit) ==
    CASE ToLowerCase(unit) = "months" -> value * 30 * 24 * 60
      [] ToLowerCase(unit) = "days" -> value * 24 * 60
      [] ToLowerCase(unit) = "hours" -> value * 60
      [] OTHER -> value

\* the convertToMinutes that common-validations exports
convertToMinutes(value, unit) ==
    CASE unit = "hours" -> value * 60
      [] unit = "days" -> value * 24 * 60
      [] OTHER -> value

\* target.xUnit.toLowerCase() raises unless the unit is a string
UnitReadThrows(target) ==
    \/ target.t \in {"null", "undefined"}
    \/ GetKey(target, "resolveWithinUnit").t # "string"
    \/ GetKey(target, "respondWithinUnit").t # "string"

\* variant: only a shorter resolve time is bad
TargetBadShorter(target) ==
    LET rv == GetKey(target, "resolveWithinValue")
        pv == GetKey(target, "respondWithinValue")
    IN /\ rv.t = "number"
       /\ pv.t = "number"
       /\ convertToMinutesKw(rv.v, GetKey(target, "resolveWithinUnit").v)
            < convertToMinutesKw(pv.v, GetKey(target, "respondWithinUnit").v)

\* a comparison with a non-number operand (undefined becomes NaN) is false
TargetBad(target) ==
    LET rv == GetKey(target, "resolveWithinValue")
        pv == GetKey(target, "respondWithinValue")
    IN /\ rv.t = "number"
       /\ pv.t = "number"
       /\ convertToMinutesKw(rv.v, GetKey(target, "resolveWithinUnit").v)
            <= convertToMinutesKw(pv.v, GetKey(target, "respondWithinUnit").v)

\* variant: a lone target is not judged
validateTimeRelationPlural(data) ==
    IF data.t # "array" \/ Len(data.v) <= 1 THEN "pass"
    ELSE IF \E i \in 1..Len(data.v) : UnitReadThrows(data.v[i]) THEN "throw"
    ELSE IF \E i \in 1..Len(data.v) : TargetBad(data.v[i]) THEN "fail" ELSE "pass"

validateTimeRelation(data) ==
    IF data.t # "array" \/ Len(data.v) = 0 THEN "pass"
    ELSE IF \E i \in 1..Len(data.v) :
                /\ UnitReadThrows(data.v[i])
                /\ \A j \in 1..(i - 1) : ~UnitReadThrows(data.v[j]) /\ ~TargetBad(data.v[j])
         THEN "throw"
    ELSE IF \E i \in 1..Len(data.v) : TargetBad(data.v[i]) THEN "fail" ELSE "pass"

\* 'HH:MM' strings of the model as minutes of the day
MinuteOfDay(s) ==
    CASE s = "09:00" -> 540
      [] s = "17:00" -> 1020
      [] OTHER -> 0

validateTimeRange(data) ==
    LET st == GetKey(data, "startTime")
        en == GetKey(data, "endTime")
    IN IF st.t # "string" \/ en.t # "string" THEN "pass"
       ELSE IF MinuteOfDay(st.v) < MinuteOfDay(en.v) THEN "pass" ELSE "fail"

\* keyword, the data type it is registered for, its fixed message
ArrayKeywords ==
    << <<"validateTimeRelation",
         <<"Resolution time must be strictly greater than response time for each severity level">> >>,
       <<"validateUniqueEscalationOrders", <<"Escalation orders must be unique">> >>,
       <<"validateUniqueSeverityLevels",
         <<"Service level targets must have unique severity levels">> >>,
       <<"validateUniquePolicyIds", <<"Policy IDs must be unique">> >>,
       <<"validateUniquePositions", <<"Positions must be unique">> >>,
       <<"validateUniqueTicketIds", <<"Ticket IDs must be unique">> >>,
       <<"validateUniqueFieldOptionNames",
         <<"Field options must have unique names (case insensitive)">> >>,
       <<"validateFieldOptionOrders",
         <<"Field option orders must be in sequence starting from 1 (e.g., 1,2,3...)">> >> >>

ObjectKeywords == << <<"validateTimeRange", <<"Start time must be before end time">> >> >>

RunKeyword(kw, data) ==
    CASE kw = "validateTimeRelation" -> validateTimeRelation(data)
      [] kw = "validateUniqueEscalationOrders" -> validateUnique("escalationOrder", data)
      [] kw = "validateUniqueSeverityLevels" -> validateUnique("severity", data)
      [] kw = "validateUniquePolicyIds" -> validateUnique("policyId", data)
      [] kw = "validateUniquePositions" -> validateUnique("position", data)
      [] kw = "validateUniqueTicketIds" -> validateUnique("ticketId", data)
      [] kw = "validateUniqueFieldOptionNames" -> validateUniqueFieldOptionNames(data)
      [] kw = "validateFieldOptionOrders" -> validateFieldOptionOrders(data)
      [] kw = "validateTimeRange" -> validateTimeRange(data)
      [] OTHER -> "pass"

----------------------------------------------------------------------------
(* The validator ajv generates for a schema: validateFn(data) as the list  *)
(* of raw errors it leaves in validateFn.errors (allErrors, verbose,       *)
(* $data, coerceTypes off), with the ajv-errors post-processing of         *)
(* errorMessage.  Keywords run in ajv's rule order: type, the keywords     *)
(* bound to no type, then the number, string, array and object groups.     *)

\* verbose: true attaches the schema node; the normalizer reads these keys
ParentView(S) ==
    [k \in ((DOMAIN S) \cap {"enum", "errorMessage"}) \cup {"verbose"} |->
        IF k = "verbose" THEN TRUE ELSE S[k]]

Err(kw, ip, sp, params, msg, S) ==
    [keyword |-> kw, instancePath |-> ip, schemaPath |-> sp \o <<kw>>,
     params |-> params, message |-> msg, parentSchema |-> ParentView(S)]

\* a TypeError raised by a keyword's validate function while the validator runs
ThrowMark ==
    [keyword |-> "#TypeError", instancePath |-> <<>>, schemaPath |-> <<>>,
     params |-> [none |-> TRUE], message |-> <<>>, parentSchema |-> [verbose |-> TRUE]]

Threw(errs) == \E i \in 1..Len(errs) : errs[i].keyword = "#TypeError"

PropNames(S) ==
    IF Has(S, "properties") THEN {S.properties[i][1] : i \in 1..Len(S.properties)} ELSE {}

InSeq(x, seq) == \E i \in 1..Len(seq) : seq[i] = x

\* ajv-errors: replace the matched errors of this schema node by one error per message
ApplyErrorMessage(S, errs, ip, sp) ==
    LET em == S.errorMessage
        Free(e) == e.keyword \notin {"errorMessage", "#TypeError"}
        Wrap(at, msg, matched) ==
            [keyword |-> "errorMessage", instancePath |-> at,
             schemaPath |-> sp \o <<"errorMessage">>, params |-> [errors |-> matched],
             message |-> msg, parentSchema |-> ParentView(S)]
        Direct(e, k) ==
            Free(e) /\ e.keyword = k /\ e.instancePath = ip /\ e.schemaPath = sp \o <<k>>
        reqs == IF Has(em, "required") THEN em.required ELSE <<>>
        kws == IF Has(em, "keywords") THEN em.keywords ELSE <<>>
        props == IF Has(em, "properties") THEN em.properties ELSE <<>>
        ReqMatch(e, i) == Direct(e, "required") /\ e.params.missingProperty = reqs[i][1]
        KwMatch(e, i) == Direct(e, kws[i][1])
        ChildMatch(e, i) ==
            /\ Free(e)
            /\ Len(e.instancePath) > Len(ip)
            /\ IsPrefix(ip, e.instancePath)
            /\ e.instancePath[Len(ip) + 1] = props[i][1]
        Used(e) ==
            \/ \E i \in 1..Len(reqs) : ReqMatch(e, i)
            \/ \E i \in 1..Len(kws) : KwMatch(e, i)
            \/ \E i \in 1..Len(props) : ChildMatch(e, i)
        Unused(e) == ~Used(e)
        NewReq(i) ==
            LET M(e) == ReqMatch(e, i) IN
            IF SelectSeq(errs, M) = <<>> THEN <<>>
            ELSE <<Wrap(ip, reqs[i][2], SelectSeq(errs, M))>>
        NewKw(i) ==
            LET M(e) == KwMatch(e, i) IN
            IF SelectSeq(errs, M) = <<>> THEN <<>>
            ELSE <<Wrap(ip, kws[i][2], SelectSeq(errs, M))>>
        NewChild(i) ==
            LET M(e) == ChildMatch(e, i) IN
            IF SelectSeq(errs, M) = <<>> THEN <<>>
            ELSE <<Wrap(ip \o <<props[i][1]>>, props[i][2], SelectSeq(errs, M))>>
        NotFree(e) == ~Free(e)
    IN IF Has(em, "string")
       THEN IF SelectSeq(errs, Free) = <<>> THEN errs
            ELSE SelectSeq(errs, NotFree) \o <<Wrap(ip, em.string, SelectSeq(errs, Free))>>
       ELSE SelectSeq(errs, Unused)
            \o Concat([i \in 1..Len(reqs) |-> NewReq(i)])
            \o Concat([i \in 1..Len(kws) |-> NewKw(i)])
            \o Concat([i \in 1..Len(props) |-> NewChild(i)])

RECURSIVE Eval(_, _, _, _, _)

\* errors of schema S on data D at instance path ip; P is the enclosing value
Eval(S, D, P, ip, sp) ==
    LET typeErrs ==
            IF Has(S, "type") /\ D.t # S.type
            THEN <<Err("type", ip, sp, [type |-> S.type], <<"must be ", S.type>>, S)>>
            ELSE <<>>
        constErrs ==
            IF ~Has(S, "const") THEN <<>>
            ELSE LET target == IF Has(S.const, "data") THEN GetKey(P, S.const.data)
                               ELSE S.const.value
                 IN IF target.t = "undefined" \/ D = target THEN <<>>
                    ELSE <<Err("const", ip, sp, [allowedValue |-> target],
                               <<"must be equal to constant">>, S)>>
        enumErrs ==
            IF Has(S, "enum") /\ ~(D.t = "string" /\ InSeq(D.v, S.enum))
            THEN <<Err("enum", ip, sp, [allowedValues |-> S.enum],
                       <<"must be equal to one of the allowed values">>, S)>>
            ELSE <<>>
        notErrs ==
            IF ~Has(S, "not") THEN <<>>
            ELSE LET Negate(inner) ==
                         IF Threw(inner) THEN <<ThrowMark>>
                         ELSE IF Len(inner) = 0
                         THEN <<Err("not", ip, sp, [none |-> TRUE], <<"must NOT be valid">>, S)>>
                         ELSE <<>>
                 IN Bind(Eval(S["not"], D, P, ip, sp \o <<"not">>), Negate)
        allOfErrs ==
            IF ~Has(S, "allOf") THEN <<>>
            ELSE Concat([i \in 1..Len(S.allOf) |->
                    Eval(S.allOf[i], D, P, ip, sp \o <<"allOf", ToString(i - 1)>>)])
        ifErrs ==
            IF ~Has(S, "if") THEN <<>>
            ELSE LET Branch(thenErrs) ==
                         IF Len(thenErrs) = 0 THEN <<>>
                         ELSE thenErrs \o
                              <<Err("if", ip, sp, [failingKeyword |-> "then"],
                                    <<"must match \"then\" schema">>, S)>>
                     Decide(cond) ==
                         IF Threw(cond) THEN <<ThrowMark>>
                         ELSE IF Len(cond) = 0 /\ Has(S, "then")
                         THEN Bind(Eval(S["then"], D, P, ip, sp \o <<"then">>), Branch)
                         ELSE <<>>
                 IN Bind(Eval(S["if"], D, P, ip, sp \o <<"if">>), Decide)
        numberErrs ==
            IF D.t = "number" /\ Has(S, "minimum") /\ D.v < S.minimum
            THEN <<Err("minimum", ip, sp, [limit |-> S.minimum],
                       <<"must be >= ", ToString(S.minimum)>>, S)>>
            ELSE <<>>
        stringErrs ==
            IF D.t = "string" /\ Has(S, "format") /\ ~MatchesFormat(S.format, D.v)
            THEN <<Err("format", ip, sp, [format |-> S.format],
                       <<"must match format \"", S.format, "\"">>, S)>>
            ELSE <<>>
        KeywordErrs(table) ==
            Concat([i \in 1..Len(table) |->
                IF ~Has(S, table[i][1]) THEN <<>>
                ELSE CASE RunKeyword(table[i][1], D) = "throw" -> <<ThrowMark>>
                       [] RunKeyword(table[i][1], D) = "fail" ->
                            <<Err(table[i][1], ip, sp, [none |-> TRUE], table[i][2], S)>>
                       [] OTHER -> <<>>])
        arrayErrs ==
            IF D.t # "array" THEN <<>>
            ELSE (IF ~Has(S, "items") THEN <<>>
                  ELSE Concat([i \in 1..Len(D.v) |->
                          Eval(S.items, D.v[i], D, ip \o <<ToString(i - 1)>>,
                               sp \o <<"items">>)]))
                 \o KeywordErrs(ArrayKeywords)
        objectErrs ==
            IF D.t # "object" THEN <<>>
            ELSE (IF ~Has(S, "required") THEN <<>>
                  ELSE Concat([i \in 1..Len(S.required) |->
                          IF HasKey(D, S.required[i]) THEN <<>>
                          ELSE <<Err("required", ip, sp,
                                     [missingProperty |-> S.required[i]],
                                     <<"must have required property '", S.required[i], "'">>,
                                     S)>>]))
                 \o (IF ~(Has(S, "additionalProperties") /\ S.additionalProperties = JBool(FALSE))
                     THEN <<>>
                     ELSE Concat([i \in 1..Len(D.v) |->
                             IF D.v[i][1] \in PropNames(S) THEN <<>>
                             ELSE <<Err("additionalProperties", ip, sp,
                                        [additionalProperty |-> D.v[i][1]],
                                        <<"must NOT have additional properties">>, S)>>]))
                 \o (IF ~Has(S, "properties") THEN <<>>
                     ELSE Concat([i \in 1..Len(S.properties) |->
                             IF ~HasKey(D, S.properties[i][1]) THEN <<>>
                             ELSE Eval(S.properties[i][2], GetKey(D, S.properties[i][1]), D,
                                       ip \o <<S.properties[i][1]>>,
                                       sp \o <<"properties", S.properties[i][1]>>)]))
                 \o KeywordErrs(ObjectKeywords)
        \* ajv reports a lone type's mismatch where that type's keyword group runs
        deferred ==
            /\ Has(S, "type")
            /\ \/ S.type = "number" /\ Has(S, "minimum")
               \/ S.type = "string" /\ Has(S, "format")
               \/ S.type = "array" /\ (Has(S, "items") \/ \E i \in 1..Len(ArrayKeywords) :
                                                            Has(S, ArrayKeywords[i][1]))
               \/ S.type = "object"
                    /\ \/ Has(S, "required") \/ Has(S, "additionalProperties")
                       \/ Has(S, "properties")
                       \/ \E i \in 1..Len(ObjectKeywords) : Has(S, ObjectKeywords[i][1])
        Group(type, errs) ==
            IF D.t = type THEN errs
            ELSE IF deferred /\ S.type = type THEN typeErrs ELSE <<>>
        own == (IF deferred THEN <<>> ELSE typeErrs)
               \o constErrs \o enumErrs \o notErrs \o allOfErrs \o ifErrs
               \o Group("number", numberErrs) \o Group("string", stringErrs)
               \o Group("array", arrayErrs) \o Group("object", objectErrs)
        Finish(errs) ==
            IF Threw(errs) THEN <<ThrowMark>>
            ELSE IF Has(S, "errorMessage") THEN ApplyErrorMessage(S, errs, ip, sp)
            ELSE errs
    IN Bind(own, Finish)

\* validateFn(data): the raw error list; <<>> stands for errors = null
RunValidator(S, D) == Eval(S, D, Undefined, <<>>, <<"#">>)

----------------------------------------------------------------------------
(* formatAjvErrors (common-validations): raw errors to the caller's list   *)

IsAllDigits(seg) == seg \in {ToString(i) : i \in 0..9}

\* /\d+/.test: the segment holds a digit somewhere
ContainsDigit(seg) == IsAllDigits(seg) \/ seg \in {"address2"}

\* the characters of a property name, as tokens
NameTokens(name) ==
    IF name = "user.name" THEN <<"user", ".", "name">> ELSE <<name>>

RECURSIVE JoinDots(_)
\* parts.join('.')
JoinDots(parts) ==
    IF Len(parts) = 0 THEN <<>>
    ELSE IF Len(parts) = 1 THEN NameTokens(parts[1])
    ELSE NameTokens(parts[1]) \o <<".">> \o JoinDots(Tail(parts))

RECURSIVE JoinComma(_)
\* values.join(', ')
JoinComma(values) ==
    IF Len(values) = 0 THEN <<>>
    ELSE IF Len(values) = 1 THEN <<values[1]>>
    ELSE <<values[1], ", ">> \o JoinComma(Tail(values))

RECURSIVE FormatArrayParts(_, _)
FormatArrayParts(parts, index) ==
    IF index = 0 THEN <<>>
    ELSE LET result == FormatArrayParts(parts, index - 1)
             part == parts[index]
         IN IF IsAllDigits(part) THEN result \o <<"[", part, "]">>
            ELSE result \o (IF index = 1 THEN NameTokens(part)
                            ELSE <<".">> \o NameTokens(part))

formatArrayPath(path) == FormatArrayParts(path, Len(path))

\* variant: every segment is a dotted component
getFieldFromPathDotted(path) == JoinDots(path)

getFieldFromPath(path) ==
    IF Len(path) = 0 THEN <<>>
    ELSE IF \E i \in 1..Len(path) : ContainsDigit(path[i]) THEN formatArrayPath(path)
    ELSE JoinDots(path)

\* error.parentSchema?.errorMessage?.[k]; <<>> is undefined
SchemaMessage(ps, k) ==
    IF Has(ps, "errorMessage") /\ Has(ps.errorMessage, "keywords")
       /\ \E i \in 1..Len(ps.errorMessage.keywords) : ps.errorMessage.keywords[i][1] = k
    THEN ps.errorMessage.keywords[
            CHOOSE i \in 1..Len(ps.errorMessage.keywords) :
                ps.errorMessage.keywords[i][1] = k][2]
    ELSE <<>>

OrElse(text, fallback) == IF Len(text) > 0 THEN text ELSE fallback

getFormatErrorMessage(error) ==
    CASE error.params.format = "email" -> <<"Please enter a valid email address">>
      [] error.params.format = "date-time" -> <<"Please enter a valid date and time">>
      [] error.params.format = "uuid" -> <<"Invalid ID format">>
      [] OTHER -> OrElse(error.message, <<"Invalid format">>)

getTypeErrorMessage(error) ==
    LET field == getFieldFromPath(error.instancePath)
    IN IF Has(error.parentSchema, "enum")
       THEN field \o <<" must be one of: ">> \o JoinComma(error.parentSchema.enum)
       ELSE IF Len(SchemaMessage(error.parentSchema, "type")) > 0
       THEN SchemaMessage(error.parentSchema, "type")
       ELSE field \o <<" must be a ", error.params.type>>

getEnumErrorMessage(error) ==
    IF Has(error.params, "allowedValues")
    THEN <<"Must be one of: ">> \o JoinComma(error.params.allowedValues)
    ELSE <<"Invalid value selected">>

\* the entry one raw error contributes: field, message, priority, path
Normalize(error) ==
    LET hasPath == Len(error.instancePath) > 0
        Entry(field, message, priority) ==
            [field |-> field, message |-> message, priority |-> priority,
             hasPath |-> hasPath, path |-> error.instancePath]
    IN CASE error.keyword = "required" ->
              LET field == IF Has(error.params, "missingProperty")
                           THEN NameTokens(error.params.missingProperty) ELSE <<>>
                  nested == IF Has(error.params, "errors") /\ Len(error.params.errors) > 0
                            THEN error.params.errors[1].message ELSE <<>>
              IN Entry(field,
                       OrElse(nested, <<"The field '">> \o field \o <<"' is required">>), 1)
         [] error.keyword = "format" ->
              Entry(getFieldFromPath(error.instancePath), getFormatErrorMessage(error), 3)
         [] error.keyword = "type" ->
              Entry(getFieldFromPath(error.instancePath), getTypeErrorMessage(error), 2)
         [] error.keyword = "enum" ->
              Entry(getFieldFromPath(error.instancePath), getEnumErrorMessage(error), 2)
         [] error.keyword = "pattern" ->
              Entry(getFieldFromPath(error.instancePath),
                    OrElse(SchemaMessage(error.parentSchema, "pattern"), <<"Invalid format">>),
                    2)
         [] error.keyword = "additionalProperties" ->
              LET field == IF Has(error.params, "additionalProperty")
                           THEN NameTokens(error.params.additionalProperty) ELSE <<>>
              IN Entry(field, <<"The property '">> \o field \o <<"' is not allowed">>, 2)
         [] OTHER ->
              Entry(getFieldFromPath(error.instancePath),
                    OrElse(error.message, <<"Validation error">>), 1)

\* a wrapped additionalProperties failure is stored without a priority test
IsWrappedAdditional(error) ==
    /\ error.keyword = "errorMessage"
    /\ Has(error.params, "errors")
    /\ error.params.errors[1].keyword = "additionalProperties"

WrappedAdditionalEntry(error) ==
    LET nested == error.params.errors[1]
        field == IF Has(nested.params, "additionalProperty")
                 THEN NameTokens(nested.params.additionalProperty) ELSE <<>>
    IN [field |-> field,
        message |-> OrElse(SchemaMessage(nested.parentSchema, "additionalProperties"),
                           <<"The property '">> \o field \o <<"' is not allowed">>),
        priority |-> 2, hasPath |-> FALSE, path |-> <<>>]

MapHas(map, field) == \E i \in 1..Len(map) : map[i].field = field
MapGet(map, field) == map[CHOOSE i \in 1..Len(map) : map[i].field = field]

\* Map.prototype.set: an existing key keeps its place
MapSet(map, entry) ==
    IF MapHas(map, entry.field)
    THEN [i \in 1..Len(map) |-> IF map[i].field = entry.field THEN entry ELSE map[i]]
    ELSE Append(map, entry)

RECURSIVE BuildErrorMap(_, _)
\* errors.forEach(...) over the first n raw errors
BuildErrorMap(errors, n) ==
    IF n = 0 THEN <<>>
    ELSE LET error == errors[n]
             Put(map) ==
                 IF IsWrappedAdditional(error)
                 THEN MapSet(map, WrappedAdditionalEntry(error))
                 ELSE LET Store(entry) ==
                              IF ~MapHas(map, entry.field)
                                 \/ MapGet(map, entry.field).priority < entry.priority
                              THEN MapSet(map, entry)
                              ELSE map
                      IN Bind(Normalize(error), Store)
         IN Bind(BuildErrorMap(errors, n - 1), Put)

ThenMessage == <<"must match \"then\" schema">>

\* the first filter: a generic "then" error gives way to an error of a child
KeptByThenFilter(map, error) ==
    IF error.message = ThenMessage /\ Len(error.field) > 0
    THEN ~\E i \in 1..Len(map) :
            /\ map[i] # error
            /\ \/ IsPrefix(error.field \o <<".">>, map[i].field)
               \/ /\ map[i].hasPath
                  /\ error.hasPath
                  /\ Len(map[i].path) > Len(error.path)
                  /\ JoinDots(SubSeq(map[i].path, 1, Len(error.path))) = JoinDots(error.path)
    ELSE TRUE

\* variant: the entries stay in map order
SortByPriorityNone(list) == list

\* Array.prototype.sort((a, b) => b.priority - a.priority), which is stable
SortByPriority(list) ==
    LET P(n) == LET Is(e) == e.priority = n IN SelectSeq(list, Is)
    IN P(3) \o P(2) \o P(1)

Shape(entry) ==
    IF entry.hasPath
    THEN [field |-> entry.field, message |-> entry.message, path |-> entry.path]
    ELSE [field |-> entry.field, message |-> entry.message]

formatAjvErrors(errors) ==
    LET Keep2(e) == Len(e.field) > 0 \/ e.priority > 1
        Output(sorted) == [i \in 1..Len(sorted) |-> Shape(sorted[i])]
        Filter(map) ==
            LET Keep1(e) == KeptByThenFilter(map, e)
            IN Bind(SortByPriority(SelectSeq(SelectSeq(map, Keep1), Keep2)), Output)
    IN Bind(BuildErrorMap(errors, Len(errors)), Filter)

----------------------------------------------------------------------------
(* TypeBox constructors and the CommonValidations factories used below     *)

TypeString(options) == options @@ [type |-> "string"]
TypeNumber(options) == options @@ [type |-> "number"]
TypeArray(items, options) == options @@ [type |-> "array", items |-> items]
TypeUnknown == [unknown |-> TRUE]
TypeOptional(schema) == schema @@ [optional |-> TRUE]
NoOptions == [unknown |-> TRUE]

\* Type.Object lists the properties that are not Optional as required
TypeObject(properties, options) ==
    LET NotOptional(p) == ~Has(p[2], "optional")
        names == SelectSeq(properties, NotOptional)
        required == [i \in 1..Len(names) |-> names[i][1]]
    IN options @@ (IF Len(required) = 0
                   THEN [type |-> "object", properties |-> properties]
                   ELSE [type |-> "object", properties |-> properties,
                         required |-> required])

MessageMap(pairs) == [keywords |-> pairs]

\* a factory called without its options argument
OptionsOmitted == [omitted |-> TRUE]

\* what a read of a property of undefined raises
TypeError == [threw |-> "TypeError"]

\* options?.errorMessages?.[kind]; <<>> is undefined
Message(options, kind) ==
    IF Has(options, "errorMessages") /\ Has(options.errorMessages, kind)
    THEN options.errorMessages[kind] ELSE <<>>

\* { minItems: options?.minItems, maxItems: options?.maxItems }
ItemLimits(options) ==
    (IF Has(options, "minItems") THEN [minItems |-> options.minItems] ELSE NoOptions)
    @@ (IF Has(options, "maxItems") THEN [maxItems |-> options.maxItems] ELSE NoOptions)

\* `${options?.[key]}` inside a template text
LimitText(options, key) == IF Has(options, key) THEN ToString(options[key]) ELSE "undefined"

uuid(options) ==
    TypeString([format |-> "uuid",
                errorMessage |->
                    MessageMap(<< <<"type", OrElse(Message(options, "type"),
                                                   <<"Please enter a valid ID">>)>>,
                                  <<"format", OrElse(Message(options, "format"),
                                                     <<"Must be a valid UUID">>)>> >>)])

email(options) ==
    TypeString([format |-> "email",
                errorMessage |->
                    MessageMap(<< <<"type", OrElse(Message(options, "type"),
                                                   <<"Please enter an email address">>)>>,
                                  <<"format", OrElse(Message(options, "format"),
                                                     <<"Must be a valid email address">>)>> >>)])

uuidArray(options) ==
    TypeArray(
        TypeString([format |-> "uuid",
                    errorMessage |->
                        MessageMap(<< <<"type", <<"Please enter a valid ID">> >>,
                                      <<"format",
                                        OrElse(Message(options, "items"),
                                               <<"Please enter a valid ID in UUID format">>)>> >>)]),
        ItemLimits(options) @@
        [errorMessage |->
            MessageMap(<< <<"type", OrElse(Message(options, "type"),
                                           <<"Please provide a list of IDs">>)>>,
                          <<"minItems",
                            OrElse(Message(options, "minItems"),
                                   <<"Must select at least ", LimitText(options, "minItems"),
                                     " items">>)>>,
                          <<"maxItems",
                            OrElse(Message(options, "maxItems"),
                                   <<"Cannot select more than ", LimitText(options, "maxItems"),
                                     " items">>)>> >>)])

\* the array-level fragment objectArray and stringArray share
ArrayMessages(options, typeText) ==
    ItemLimits(options) @@
    [errorMessage |->
        MessageMap(<< <<"type", OrElse(Message(options, "type"), typeText)>>,
                      <<"minItems",
                        OrElse(Message(options, "minItems"),
                               <<"Must have at least ", LimitText(options, "minItems"),
                                 " items">>)>>,
                      <<"maxItems",
                        OrElse(Message(options, "maxItems"),
                               <<"Cannot exceed ", LimitText(options, "maxItems"),
                                 " items">>)>> >>)]

\* options.validate is not given in the model, so the array schema is returned as built
objectArray(schema, options) ==
    TypeArray(schema, ArrayMessages(options, <<"Must be an array">>))

\* options.notAllowSpecialChars is read without optional chaining
stringArray(options) ==
    IF Has(options, "omitted") THEN TypeError
    ELSE TypeArray(
            TypeString(
                (IF Has(options, "notAllowSpecialChars") /\ options.notAllowSpecialChars
                 THEN NoOptions ELSE [pattern |-> "^[a-zA-Z0-9\\s_-]+$"])
                @@ [isNotEmpty |-> TRUE,
                    errorMessage |->
                        MessageMap(<< <<"type", OrElse(Message(options, "type"),
                                                       <<"Must be an array of strings">>)>>,
                                      <<"isNotEmpty",
                                        OrElse(Message(options, "items"),
                                               <<"Array items cannot be empty strings">>)>>,
                                      <<"pattern",
                                        OrElse(Message(options, "items"),
                                               <<"Array items cannot contain special characters or be empty">>)>> >>)]),
            ArrayMessages(options, <<"Must be an array of strings">>))

enumValue(enumValues, typeMessage, enumMessage) ==
    TypeString([enum |-> enumValues,
                errorMessage |->
                    MessageMap(<< <<"type", <<"Must be one of: ">> \o JoinComma(enumValues)>>,
                                  <<"enum", OrElse(enumMessage,
                                        <<"Must be one of: ">> \o JoinComma(enumValues))>> >>)])

differentValues(field1, field2, errorMessage) ==
    [if |-> [type |-> "object",
             properties |-> << <<field1, [type |-> "string"]>>,
                               <<field2, [type |-> "string"]>> >>,
             required |-> <<field1, field2>>],
     then |-> [not |-> [properties |-> << <<field1, [const |-> [data |-> field2]]>> >>]],
     errorMessage |-> [string |-> OrElse(errorMessage,
                          <<field1, " and ", field2, " must have different values">>)]]

\* a dependsOn entry is <<key, [any |-> TRUE]>> for '*' or <<key, [values |-> list]>>
dependencyChain(dependencies) ==
    LET Rule(d) ==
            [if |-> [type |-> "object",
                     properties |->
                         [i \in 1..Len(d.dependsOn) |->
                             <<d.dependsOn[i][1],
                               IF Has(d.dependsOn[i][2], "any") THEN [type |-> "string"]
                               ELSE [enum |-> d.dependsOn[i][2].values]>>],
                     required |-> [i \in 1..Len(d.dependsOn) |-> d.dependsOn[i][1]]],
             then |-> [required |-> <<d.field>>],
             errorMessage |->
                 [required |->
                     << <<d.field, OrElse(d.errorMessage,
                                          <<d.field, " is required based on dependencies">>)>> >>]]
    IN [allOf |-> [i \in 1..Len(dependencies) |-> Rule(dependencies[i])]]

\* one branch of fieldDefinitionValidation: fieldType kind fixes selectedValue's shape
FieldBranch(kind, selectedValue, message) ==
    [if |-> [properties |-> << <<"fieldType", [enum |-> <<kind>>]>> >>,
             required |-> <<"fieldType">>],
     then |-> [properties |-> << <<"selectedValue", selectedValue>> >>,
               errorMessage |-> [properties |-> << <<"selectedValue", message>> >>]]]

StringArrayBranch(kind) ==
    LET message == <<"Selected value for ", kind, " fields must be an array of strings">>
    IN FieldBranch(kind,
          TypeArray(TypeString(NoOptions),
                    [errorMessage |-> MessageMap(<< <<"type", message>> >>)]),
          message)

StringBranch(kind) ==
    LET message == <<"Selected value for ", kind, " fields must be a string">>
    IN FieldBranch(kind,
          TypeString([errorMessage |-> MessageMap(<< <<"type", message>> >>)]), message)

\* variant: the number branch takes a string payload
NumberBranchLoose(kind) ==
    LET message == <<"Selected value for ", kind, " fields must be a number">>
    IN FieldBranch(kind,
          TypeString([errorMessage |-> MessageMap(<< <<"type", message>> >>)]), message)

NumberBranch(kind) ==
    LET message == <<"Selected value for ", kind, " fields must be a number">>
    IN FieldBranch(kind,
          TypeNumber([errorMessage |-> MessageMap(<< <<"type", message>> >>)]), message)

UuidArrayBranch(kind) ==
    LET message == <<"Selected value for ", kind, " fields must be an array of UUIDs">>
    IN FieldBranch(kind,
          TypeArray(TypeString([format |-> "uuid",
                                errorMessage |-> MessageMap(<< <<"format", message>>,
                                                               <<"type", message>> >>)]),
                    [errorMessage |-> MessageMap(<< <<"type", message>> >>)]),
          message)

fieldDefinitionValidation(fieldTypeEnum) ==
    TypeObject(
        << <<"customFieldDefinitionId", uuid(OptionsOmitted)>>,
           <<"fieldType",
             enumValue(fieldTypeEnum, <<"Field type must be a valid enum value">>,
                       <<"Invalid field type. Must be one of: ">> \o JoinComma(fieldTypeEnum))>>,
           <<"selectedValue", TypeOptional(TypeUnknown)>> >>,
        [allOf |-> << StringArrayBranch("label"), StringArrayBranch("dropdown"),
                      StringBranch("text"), StringBranch("textarea"),
                      NumberBranch("date"), NumberBranch("number"),
                      UuidArrayBranch("files"), UuidArrayBranch("people") >>])

----------------------------------------------------------------------------
(* ajvSchemaValidator (schema-ajv-validator)                               *)

RECURSIVE Malformed(_)
\* ajv.compile raises on this schema: a keyword value of the wrong type
Malformed(S) ==
    \/ Has(S, "additionalProperties") /\ S.additionalProperties.t \notin {"boolean", "object"}
    \/ Has(S, "properties") /\ \E i \in 1..Len(S.properties) : Malformed(S.properties[i][2])
    \/ Has(S, "items") /\ Malformed(S.items)
    \/ Has(S, "allOf") /\ \E i \in 1..Len(S.allOf) : Malformed(S.allOf[i])
    \/ Has(S, "if") /\ Malformed(S["if"])
    \/ Has(S, "then") /\ Malformed(S["then"])
    \/ Has(S, "not") /\ Malformed(S["not"])

NullErrors == [null |-> TRUE]
ErrorList(list) == [null |-> FALSE, list |-> list]

SchemaErrorResult ==
    [isValid |-> FALSE,
     errors |-> ErrorList(<<[field |-> <<"_schema">>,
                             message |-> <<"Invalid schema configuration">>]>>)]

\* options.customMessages[error.keyword], applied to each top-level raw error
ApplyCustomMessages(customMessages, errors) ==
    [i \in 1..Len(errors) |->
        IF Has(customMessages, errors[i].keyword)
           /\ Len(customMessages[errors[i].keyword]) > 0
        THEN [errors[i] EXCEPT !.message = customMessages[errors[i].keyword]]
        ELSE errors[i]]

\* variant: a run that finds errors keeps the messages already in the slot
ValidateFnErrorsKeepMessages(previous, raw) ==
    IF Len(raw) = 0 THEN NullErrors
    ELSE IF Has(previous, "list") /\ Len(previous.list) = Len(raw)
    THEN ErrorList([i \in 1..Len(raw) |->
                       [raw[i] EXCEPT !.message = previous.list[i].message]])
    ELSE ErrorList(raw)

\* variant: the slot is read before the run has replaced it
ValidateFnErrorsStale(previous, raw) ==
    IF Len(raw) = 0 THEN NullErrors
    ELSE IF Has(previous, "list") THEN previous
    ELSE ErrorList(raw)

\* validateFn(value) replaces validateFn.errors (previous) by this run's errors
ValidateFnErrors(previous, raw) ==
    IF Len(raw) = 0 THEN NullErrors ELSE ErrorList(raw)

\* the body of the try block; slot is validateFn.errors of the cached validator
TryBlock(isCached, S, prevSlot, value, options) ==
    IF ~isCached /\ Malformed(S)
    THEN [exception |-> TRUE, didCompile |-> FALSE, slot |-> prevSlot]
    ELSE LET Run(raw) ==
                 IF Threw(raw)
                 THEN [exception |-> TRUE, didCompile |-> ~isCached, slot |-> prevSlot]
                 ELSE LET isValid == Len(raw) = 0
                          afterRun == ValidateFnErrors(prevSlot, raw)
                          Return(afterMap) ==
                              LET Result(formattedErrors) ==
                                      IF Has(options, "debug") /\ options.debug
                                      THEN [isValid |-> isValid, errors |-> formattedErrors,
                                            rawErrors |-> afterMap]
                                      ELSE [isValid |-> isValid, errors |-> formattedErrors]
                              IN [exception |-> FALSE, didCompile |-> ~isCached,
                                  slot |-> afterMap,
                                  result |->
                                      Bind(IF isValid \/ afterMap.null THEN NullErrors
                                           ELSE ErrorList(formatAjvErrors(afterMap.list)),
                                           Result)]
                      IN Bind(IF Has(options, "customMessages") /\ ~afterRun.null
                              THEN ErrorList(ApplyCustomMessages(options.customMessages,
                                                                 afterRun.list))
                              ELSE afterRun,
                              Return)
         IN Bind(RunValidator(S, value), Run)

\* variant: no catch, the exception reaches the caller
ajvSchemaValidatorNoCatch(isCached, S, prevSlot, value, options) ==
    LET Uncaught(t) ==
            [returned |-> ~t.exception,
             result |-> IF t.exception THEN SchemaErrorResult ELSE t.result,
             didCompile |-> t.didCompile,
             slot |-> t.slot]
    IN Bind(TryBlock(isCached, S, prevSlot, value, options), Uncaught)

\* try { ... } catch { return the '_schema' result }
ajvSchemaValidator(isCached, S, prevSlot, value, options) ==
    LET Catch(t) ==
            [returned |-> TRUE,
             result |-> IF t.exception THEN SchemaErrorResult ELSE t.result,
             didCompile |-> t.didCompile,
             slot |-> t.slot]
    IN Bind(TryBlock(isCached, S, prevSlot, value, options), Catch)

----------------------------------------------------------------------------
(* Schema constants, request values and options                            *)

\* Type.Object({name, age: minimum 18}, {required: ['name', 'age']})
personSchema ==
    TypeObject(<< <<"name", TypeString(NoOptions)>>,
                  <<"age", TypeNumber([minimum |-> 18])>> >>,
               [required |-> <<"name", "age">>])

\* the schema of 'should handle schema compilation errors'
invalidSchema ==
    [type |-> "object",
     properties |-> << <<"test", [type |-> "string", format |-> "non-existent-format"]>> >>,
     additionalProperties |-> Str("not-a-boolean")]

\* the schema of the differentValues test: allOf holds the factory's fragment
differentFieldsSchema ==
    [type |-> "object",
     properties |-> << <<"field1", [type |-> "string"]>>, <<"field2", [type |-> "string"]>> >>,
     allOf |-> <<differentValues("field1", "field2", <<>>)>>]

\* an object schema whose errorMessage names a text per required property
signupSchema ==
    TypeObject(<< <<"name", TypeString(NoOptions)>>, <<"age", TypeNumber(NoOptions)>> >>,
               [errorMessage |->
                   [required |-> << <<"name", <<"Name is required">> >>,
                                    <<"age", <<"Age is required">> >> >>]])

fieldOptionSchema ==
    TypeObject(<< <<"fieldOptions",
                    TypeArray(TypeObject(<< <<"name", TypeString(NoOptions)>>,
                                            <<"value", TypeString(NoOptions)>> >>, NoOptions),
                              [validateUniqueFieldOptionNames |-> TRUE])>> >>,
               NoOptions)

timeValidationSchema ==
    TypeObject(<< <<"serviceLevelTargets",
                    TypeArray(TypeObject(<< <<"respondWithinValue", TypeNumber(NoOptions)>>,
                                            <<"respondWithinUnit", TypeString(NoOptions)>>,
                                            <<"resolveWithinValue", TypeNumber(NoOptions)>>,
                                            <<"resolveWithinUnit", TypeString(NoOptions)>> >>,
                                         NoOptions),
                              [validateTimeRelation |-> TRUE])>> >>,
               NoOptions)

\* Object.values of the field type enums handed to fieldDefinitionValidation
AllFieldTypes == <<"label", "dropdown", "text", "textarea", "date", "number", "files", "people">>
TestFieldTypeEnum == <<"label", "text", "textarea", "date", "people", "number", "dropdown">>

DependencyIds == {"levels", "wildcard", "counted"}

\* the rules handed to dependencyChain: the two of the tests, and one whose
\* wildcard key holds a number
Dependencies(id) ==
    CASE id = "levels" ->
           <<[field |-> "level2",
              dependsOn |-> << <<"level1", [values |-> <<"A", "B">>]>> >>,
              errorMessage |-> <<"Level 2 is required when Level 1 is A or B">>]>>
      [] id = "wildcard" ->
           <<[field |-> "config", dependsOn |-> << <<"type", [any |-> TRUE]>> >>,
              errorMessage |-> <<"Config is required for all types">>]>>
      [] id = "counted" ->
           <<[field |-> "config",
              dependsOn |-> << <<"kind", [values |-> <<"A", "B">>]>>,
                               <<"count", [any |-> TRUE]>> >>,
              errorMessage |-> <<>>]>>

\* Type.Object(properties, {allOf: [CommonValidations.dependencyChain(rules)]})
dependencySchema(id) ==
    TypeObject(
        CASE id = "levels" ->
               << <<"level1", TypeString([enum |-> <<"A", "B", "C">>])>>,
                  <<"level2", TypeOptional(TypeString([enum |-> <<"X", "Y", "Z">>]))>> >>
          [] id = "wildcard" ->
               << <<"type", TypeString(NoOptions)>>,
                  <<"config", TypeOptional(TypeString(NoOptions))>> >>
          [] id = "counted" ->
               << <<"kind", TypeOptional(TypeString(NoOptions))>>,
                  <<"count", TypeOptional(TypeNumber(NoOptions))>>,
                  <<"config", TypeOptional(TypeString(NoOptions))>> >>,
        [allOf |-> <<dependencyChain(Dependencies(id))>>])

\* the schema of a query: the property kinds of the pipe's tests in one object
querySchema ==
    TypeObject(
        << <<"name", TypeOptional(TypeString(NoOptions))>>,
           <<"age", TypeOptional(TypeNumber(NoOptions))>>,
           <<"active", TypeOptional([type |-> "boolean"])>>,
           <<"tags", TypeOptional(TypeArray(TypeString(NoOptions), NoOptions))>>,
           <<"user", TypeOptional(TypeObject(
                         << <<"name", TypeOptional(TypeString(NoOptions))>>,
                            <<"age", TypeOptional(TypeNumber(NoOptions))>> >>, NoOptions))>> >>,
        NoOptions)

\* schema instances are told apart by name: personA and personB are two
\* instances of one structure
SchemaOf(id) ==
    CASE id \in {"personA", "personB"} -> personSchema
      [] id = "invalidSchema" -> invalidSchema
      [] id = "differentFields" -> differentFieldsSchema
      [] id = "signup" -> signupSchema
      [] id = "fieldOptions" -> fieldOptionSchema
      [] id = "timeTargets" -> timeValidationSchema
      [] id = "fieldDefinitionAll" -> fieldDefinitionValidation(AllFieldTypes)
      [] id = "fieldDefinitionTest" -> fieldDefinitionValidation(TestFieldTypeEnum)
      [] id \in DependencyIds -> dependencySchema(id)
      [] id = "query" -> querySchema

john == Obj(<< <<"name", Str("John Doe")>>, <<"age", Num(30)>> >>)
young == Obj(<< <<"name", Str("John Doe")>>, <<"age", Num(16)>> >>)
textAge == Obj(<< <<"name", Str("John Doe")>>, <<"age", Str("30")>> >>)

PersonValues ==
    <<john, young, textAge, WithoutKey(john, "age"), WithoutKey(john, "name"),
      WithoutKey(textAge, "name"), Obj(<<>>), Str("John Doe")>>

DifferentFieldsValues ==
    << Obj(<< <<"field1", Str(validUUID)>>, <<"field2", Str(validUUID)>> >>),
       Obj(<< <<"field1", Str(validUUID)>>, <<"field2", Str("different-uuid")>> >>),
       Obj(<< <<"field1", Str(validUUID)>> >>),
       Obj(<< <<"field1", Num(1)>>, <<"field2", Str(validUUID)>> >>) >>

Option(name, value) == Obj(<< <<"name", Str(name)>>, <<"value", Str(value)>> >>)

FieldOptionValues ==
    << Obj(<< <<"fieldOptions", Arr(<<Option("Alpha", "value1"), Option("Beta", "value2")>>)>> >>),
       Obj(<< <<"fieldOptions", Arr(<<Option("Alpha", "value1"), Option("ALPHA", "value2")>>)>> >>),
       Obj(<< <<"fieldOptions", Arr(<<>>)>> >>),
       Obj(<< <<"fieldOptions", Arr(<<Obj(<< <<"value", Str("value1")>> >>)>>)>> >>),
       Obj(<< <<"fieldOptions", Arr(<<Option("Alpha", "value1"), JNull>>)>> >>),
       Obj(<< <<"fieldOptions", Str("Alpha")>> >>),
       Obj(<<>>) >>

Target(respondValue, respondUnit, resolveValue, resolveUnit) ==
    Obj(<< <<"respondWithinValue", Num(respondValue)>>, <<"respondWithinUnit", Str(respondUnit)>>,
           <<"resolveWithinValue", Num(resolveValue)>>, <<"resolveWithinUnit", Str(resolveUnit)>> >>)

TimeTargetValues ==
    << Obj(<< <<"serviceLevelTargets", Arr(<<Target(30, "minutes", 2, "hours")>>)>> >>),
       Obj(<< <<"serviceLevelTargets", Arr(<<Target(2, "hours", 30, "minutes")>>)>> >>),
       Obj(<< <<"serviceLevelTargets",
                Arr(<<Target(5, "days", 1, "months"), Target(2, "hours", 30, "minutes")>>)>> >>),
       Obj(<< <<"serviceLevelTargets",
                Arr(<<Obj(<< <<"respondWithinValue", Num(30)>>,
                             <<"resolveWithinValue", Num(2)>> >>)>>)>> >>),
       Obj(<< <<"serviceLevelTargets", Arr(<<>>)>> >>) >>

\* the selectedValue payloads tried with each fieldType
SelectedValues ==
    << Arr(<<>>), Arr(<<Str("tag1"), Str("tag2")>>), Arr(<<Str(validUUID), Str(validUUID2)>>),
       Arr(<<Str(validUUID), Str("tag1")>>), Arr(<<Num(1)>>), Arr(<<Str("tag1"), Num(1)>>),
       Str("hello"), Str("42"), Str(validUUID), Num(42), JNull, Obj(<<>>) >>

FieldDefinition(id, fieldType) ==
    Obj(<< <<"customFieldDefinitionId", Str(id)>>, <<"fieldType", Str(fieldType)>> >>)

WithSelected(D, selectedValue) == Obj(D.v \o << <<"selectedValue", selectedValue>> >>)

FieldDefinitionValues ==
    Concat([k \in 1..Len(AllFieldTypes) |->
        <<FieldDefinition(validUUID, AllFieldTypes[k])>>
        \o [i \in 1..Len(SelectedValues) |->
               WithSelected(FieldDefinition(validUUID, AllFieldTypes[k]), SelectedValues[i])]])
    \o << FieldDefinition("not-a-uuid", "number"),
          WithSelected(FieldDefinition("not-a-uuid", "number"), Num(42)),
          WithSelected(FieldDefinition(validUUID, "checkbox"), Num(42)),
          Obj(<< <<"customFieldDefinitionId", Str(validUUID)>>, <<"selectedValue", Num(42)>> >>) >>

RECURSIVE Objects(_)
\* every list of <<key, value>> pairs that takes, per key, one of the values listed
\* for it; Undefined leaves the key out
Objects(fields) ==
    IF Len(fields) = 0 THEN << <<>> >>
    ELSE LET key == fields[1][1]
             values == fields[1][2]
             Rest(rest) ==
                 Concat([i \in 1..Len(values) |->
                    [j \in 1..Len(rest) |->
                        IF values[i].t = "undefined" THEN rest[j]
                        ELSE << <<key, values[i]>> >> \o rest[j]]])
         IN Bind(Objects(Tail(fields)), Rest)

DependencyValues(id) ==
    LET Wrap(list) == [i \in 1..Len(list) |-> Obj(list[i])]
    IN Wrap(Objects(
        CASE id = "levels" ->
               << <<"level1", <<Undefined, Str("A"), Str("B"), Str("C")>> >>,
                  <<"level2", <<Undefined, Str("X"), Str("Q")>> >> >>
          [] id = "wildcard" ->
               << <<"type", <<Undefined, Str("any"), Str("another"), Num(7)>> >>,
                  <<"config", <<Undefined, Str("some-config")>> >> >>
          [] id = "counted" ->
               << <<"kind", <<Undefined, Str("A"), Str("C")>> >>,
                  <<"count", <<Undefined, Num(0), Num(5), Str("5")>> >>,
                  <<"config", <<Undefined, Str("some-config")>> >> >>))

NoValidationOptions == [unknown |-> TRUE]
DebugOptions == [debug |-> TRUE]
MinimumMessage == [customMessages |-> [minimum |-> <<"Custom minimum value error message">>]]
MinimumMessageDebug ==
    [debug |-> TRUE,
     customMessages |-> [minimum |-> <<"Custom minimum value error message">>]]
RequiredMessage == [customMessages |-> [required |-> <<"This value is needed">>]]
TypeMessage == [customMessages |-> [type |-> <<"Wrong kind of value">>]]

Request(id, value, options) == [schema |-> id, value |-> value, options |-> options]

Product(ids, values, options) ==
    [n \in 1..(Len(ids) * Len(values) * Len(options)) |->
        Request(ids[((n - 1) % Len(ids)) + 1],
                values[(((n - 1) \div Len(ids)) % Len(values)) + 1],
                options[((n - 1) \div (Len(ids) * Len(values))) + 1])]

\* the calls the request handlers make
HandlerRequests ==
    Product(<<"personA", "personB">>, <<john, young, textAge>>,
            <<NoValidationOptions, DebugOptions, MinimumMessage, MinimumMessageDebug>>)
    \o Product(<<"invalidSchema">>, <<Obj(<< <<"test", Str("value")>> >>)>>,
               <<NoValidationOptions, DebugOptions>>)

\* every schema of the model with the values and options tried on it
Library ==
    Product(<<"personA">>, PersonValues,
            <<NoValidationOptions, DebugOptions, MinimumMessage, RequiredMessage, TypeMessage>>)
    \o Product(<<"invalidSchema">>, <<Obj(<< <<"test", Str("value")>> >>), Str("value")>>,
               <<NoValidationOptions, DebugOptions>>)
    \o Product(<<"differentFields">>, DifferentFieldsValues, <<NoValidationOptions, DebugOptions>>)
    \o Product(<<"signup">>, PersonValues, <<NoValidationOptions, RequiredMessage>>)
    \o Product(<<"fieldOptions">>, FieldOptionValues, <<NoValidationOptions>>)
    \o Product(<<"timeTargets">>, TimeTargetValues, <<NoValidationOptions>>)
    \o Product(<<"fieldDefinitionAll", "fieldDefinitionTest">>, FieldDefinitionValues,
               <<NoValidationOptions>>)
    \o Product(<<"levels">>, DependencyValues("levels"), <<NoValidationOptions>>)
    \o Product(<<"wildcard">>, DependencyValues("wildcard"), <<NoValidationOptions>>)
    \o Product(<<"counted">>, DependencyValues("counted"), <<NoValidationOptions>>)

Handlers == {"h1", "h2"}
SchemaIds ==
    {"personA", "personB", "invalidSchema", "differentFields", "signup", "fieldOptions",
     "timeTargets", "fieldDefinitionAll", "fieldDefinitionTest", "query"}
    \cup DependencyIds

MaxCalls == 3

----------------------------------------------------------------------------
(* The process: request handlers calling ajvSchemaValidator on the shared  *)
(* ajv instance.  A call is synchronous, so it is one step.                *)

NoValidator == [absent |-> TRUE]

\* variant: the cache is looked up by the schema's structure
IsCachedStructural(id) == \E c \in compiled : SchemaOf(c) = SchemaOf(id)

\* ajv.compile looks the schema object up in its cache by identity
IsCached(id) == id \in compiled

Init ==
    /\ compiled = {}
    /\ compiles = [id \in SchemaIds |-> 0]
    /\ slot = [id \in SchemaIds |-> NoValidator]
    /\ last = [h \in Handlers |-> [kind |-> "idle"]]
    /\ calls = 0

Invoke(h, req) ==
    \E r \in {ajvSchemaValidator(IsCached(req.schema), SchemaOf(req.schema),
                                 slot[req.schema], req.value, req.options)} :
       /\ compiled' = IF r.didCompile THEN compiled \cup {req.schema} ELSE compiled
       /\ compiles' = [compiles EXCEPT ![req.schema] = @ + (IF r.didCompile THEN 1 ELSE 0)]
       /\ slot' = [slot EXCEPT ![req.schema] = r.slot]
       /\ last' = [last EXCEPT ![h] =
                      [kind |-> "done", at |-> calls + 1, req |-> req,
                       returned |-> r.returned, result |-> r.result]]
       /\ calls' = calls + 1

Call ==
    \E h \in Handlers : \E n \in 1..Len(HandlerRequests) :
        /\ calls < MaxCalls
        /\ Invoke(h, HandlerRequests[n])

Next == Call

Spec == Init /\ [][Next]_vars

\* what the same call returns in a process that made no other call
Alone(req) ==
    ajvSchemaValidator(FALSE, SchemaOf(req.schema), NoValidator, req.value, req.options)

----------------------------------------------------------------------------
(* One call on a fresh process, for every request of the library           *)

InitOnce ==
    /\ compiled = {}
    /\ compiles = [id \in SchemaIds |-> 0]
    /\ slot = [id \in SchemaIds |-> NoValidator]
    /\ calls = 0
    /\ \E n \in 1..Len(Library) :
          last = [h \in Handlers |->
                     IF h = "h1" THEN [kind |-> "pending", req |-> Library[n]]
                     ELSE [kind |-> "idle"]]

Validate == \E h \in Handlers : last[h].kind = "pending" /\ Invoke(h, last[h].req)

NextOnce == Validate

SpecOnce == InitOnce /\ [][NextOnce]_vars

----------------------------------------------------------------------------
(* The validation pipes (nest/pipes)                                       *)

\* new BadRequestException(message, options): options is NoOptions or holds the cause
BadRequestException(message, options) ==
    options @@ [threw |-> "BadRequestException", message |-> message]

\* a validator that throws, as the pipes' tests install it
ValidatorThrew == [returned |-> FALSE]

\* variant: a failed validation is logged and the value handed on
SchemaAjvValidationPipe_transformLenient(value, response) ==
    IF ~response.returned THEN BadRequestException(<<"Validation failed">>, NoOptions)
    ELSE [value |-> value]

\* response is what ajvSchemaValidator(this.schema, value) did
SchemaAjvValidationPipe_transform(value, response) ==
    IF ~response.returned THEN BadRequestException(<<"Validation failed">>, NoOptions)
    ELSE IF ~response.result.isValid
    THEN BadRequestException(<<"Validation failed">>, [cause |-> response.result.errors])
    ELSE [value |-> value]

\* a query value as it arrives: its text, and the pieces text.split(',') with
\* trim() yields (one piece when the text holds no comma)
Raw(text, parts) == [t |-> "raw", text |-> text, parts |-> parts]

parseValue(value) ==
    LET Numeric == 0..99
    IN CASE value = "true" -> JBool(TRUE)
         [] value = "false" -> JBool(FALSE)
         [] value = "null" -> JNull
         [] value = "undefined" -> Undefined
         [] \E n \in Numeric : ToString(n) = value ->
              Num(CHOOSE n \in Numeric : ToString(n) = value)
         [] OTHER -> Str(value)

RECURSIVE setNestedValue(_, _, _)
\* obj[k1][k2]... = value on the object's pairs; a path of one key is obj[key] = value
setNestedValue(pairs, path, value) ==
    LET key == path[1]
        Present(p) == p[1] = key
        Set(node) ==
            IF SelectSeq(pairs, Present) = <<>> THEN Append(pairs, <<key, node>>)
            ELSE [i \in 1..Len(pairs) |-> IF pairs[i][1] = key THEN <<key, node>> ELSE pairs[i]]
        current == IF SelectSeq(pairs, Present) = <<>> THEN <<>>
                   ELSE SelectSeq(pairs, Present)[1][2].v
    IN IF Len(path) = 1 THEN Set(value)
       ELSE Bind(Obj(setNestedValue(current, Tail(path), value)), Set)

Absent == [absent |-> TRUE]

RECURSIVE getPropertySchema(_, _)
\* the schema of the property at path, Absent for undefined
getPropertySchema(schema, path) ==
    IF Len(path) = 0 THEN schema
    ELSE IF ~Has(schema, "type") THEN Absent
    ELSE IF schema.type # "object" \/ ~Has(schema, "properties") THEN Absent
    ELSE LET Named(p) == p[1] = path[1]
         IN IF SelectSeq(schema.properties, Named) = <<>> THEN Absent
            ELSE getPropertySchema(SelectSeq(schema.properties, Named)[1][2], Tail(path))

RECURSIVE parseAndTransform(_, _, _)
\* the second pass of parseQueryParams over the pairs of obj
parseAndTransform(schema, pairs, path) ==
    LET parseArrayValue(value, propertySchema) ==
            IF \/ ~Has(propertySchema, "items")
               \/ Has(propertySchema.items, "type") /\ propertySchema.items.type = "string"
            THEN Arr([i \in 1..Len(value.parts) |-> Str(value.parts[i])])
            ELSE Arr([i \in 1..Len(value.parts) |-> parseValue(value.parts[i])])
        parseSingleValue(value) ==
            IF Len(value.parts) > 1
            THEN Arr([i \in 1..Len(value.parts) |-> parseValue(value.parts[i])])
            ELSE parseValue(value.text)
        One(key, val) ==
            LET propertySchema == getPropertySchema(schema, path \o <<key>>)
            IN IF val.t = "object"
               THEN Obj(parseAndTransform(schema, val.v, path \o <<key>>))
               ELSE IF Has(propertySchema, "type") /\ propertySchema.type = "array"
               THEN parseArrayValue(val, propertySchema)
               ELSE parseSingleValue(val)
        \* a key that holds undefined is a missing key for the validator
        Defined(p) == p[2].t # "undefined"
    IN SelectSeq([i \in 1..Len(pairs) |-> <<pairs[i][1], One(pairs[i][1], pairs[i][2])>>],
                 Defined)

\* value is the list of <<key split at '.', raw value>>; n entries are taken
parseQueryParams(schema, value, n) ==
    LET FirstPass[k \in 0..n] ==
            IF k = 0 THEN <<>>
            ELSE setNestedValue(FirstPass[k - 1], value[k][1], value[k][2])
    IN Obj(parseAndTransform(schema, FirstPass[n], <<>>))

\* response is what ajvSchemaValidator(this.schema, parsedValue) did
QueryParamValidationPipe_transform(parsedValue, response) ==
    IF ~response.returned
    THEN BadRequestException(<<"Query parameter validation failed">>, NoOptions)
    ELSE IF ~response.result.isValid
    THEN BadRequestException(<<"Query parameter validation failed">>,
                             [cause |-> response.result.errors])
    ELSE [value |-> parsedValue]

----------------------------------------------------------------------------
(* Cursor pagination (odm/helpers)                                         *)

DEFAULT_PAGE_SIZE == 40

\* the token is base64url of JSON {n, i}, which is one-to-one, so the model keeps
\* {n, i}; safeName is name.trim().substring(0, 30) on the sample names, of which
\* two hold outer blanks and two hold 31 characters
encodeCursor(name, id) ==
    LET safeName == CASE name = " Field C" -> "Field C"
                      [] name = " " -> ""
                      [] name = "Custom field definition name 01" ->
                             "Custom field definition name 0"
                      [] name = "Custom field definition name 02" ->
                             "Custom field definition name 0"
                      [] OTHER -> name
    IN IF name = "" \/ id = "" THEN [threw |-> "ResumeCraftException"]
       ELSE [cursor |-> [n |-> safeName, i |-> id]]

\* cursor is a token encodeCursor made; JSON.parse gives back {n, i}
decodeCursor(cursor) ==
    IF cursor.n = "" \/ cursor.i = "" THEN [threw |-> "ResumeCraftException"]
    ELSE [name |-> cursor.n, id |-> cursor.i]

\* entity is Undefined or an object; a cursor field holds a string or null
buildCursorToken(entity, key1, key2) ==
    IF entity.t = "undefined" THEN TypeError
    ELSE IF GetKey(entity, key1).t \in {"undefined", "null"}
    THEN [threw |-> "Error", message |-> <<"Missing value for cursor field: ", key1>>]
    ELSE IF GetKey(entity, key2).t \in {"undefined", "null"}
    THEN [threw |-> "Error", message |-> <<"Missing value for cursor field: ", key2>>]
    ELSE encodeCursor(GetKey(entity, key1).v, GetKey(entity, key2).v)

\* fetched is what fetchFn(payload, pageSize) resolves to, taken up to pageSize
paginateWithCursor(fetched, payload, cursorFields) ==
    LET size == IF Has(payload, "size")
                THEN CHOOSE n \in 0..DEFAULT_PAGE_SIZE : ToString(n) = payload.size
                ELSE DEFAULT_PAGE_SIZE
        pageSize == size + 1
        entities == SubSeq(fetched, 1, IF Len(fetched) < pageSize THEN Len(fetched)
                                       ELSE pageSize)
    IN IF Len(entities) = pageSize
       THEN LET popped == SubSeq(entities, 1, Len(entities) - 1)
                lastItem == IF Len(popped) = 0 THEN Undefined ELSE popped[Len(popped)]
                nextPageToken == buildCursorToken(lastItem, cursorFields[1], cursorFields[2])
            IN IF Has(nextPageToken, "threw") THEN nextPageToken
               ELSE [items |-> popped, pageSize |-> size, nextPageToken |-> nextPageToken]
       ELSE [items |-> entities, pageSize |-> size, nextPageToken |-> JNull]

----------------------------------------------------------------------------
(* One call of an operation of the library on a fresh process: a factory   *)
(* of CommonValidations builds a fragment, a pipe transforms a value.      *)

FactoryNames == {"uuid", "email", "enumValue", "uuidArray", "stringArray", "objectArray"}

\* the calls tried: each factory with the options its option type declares
FactoryJobs ==
    LET Texts(kinds) == [k \in kinds |-> <<"Custom ", k, " error">>]
        With(kinds) == [errorMessages |-> Texts(kinds)]
        plain == <<OptionsOmitted, NoOptions>>
        arrays == plain \o
                  << With({"type"}), With({"items"}), With({"minItems"}), With({"maxItems"}),
                     [minItems |-> 1, maxItems |-> 5],
                     [minItems |-> 1, maxItems |-> 5,
                      errorMessages |-> Texts({"type", "items", "minItems", "maxItems"})] >>
        OptionsFor(fn) ==
            CASE fn \in {"uuid", "email"} ->
                   plain \o << With({"type"}), With({"format"}), With({"type", "format"}) >>
              [] fn = "enumValue" ->
                   plain \o << With({"type"}), With({"enum"}), With({"type", "enum"}) >>
              [] fn = "stringArray" ->
                   arrays \o << [notAllowSpecialChars |-> TRUE],
                                [notAllowSpecialChars |-> FALSE,
                                 errorMessages |-> Texts({"items"})] >>
              [] OTHER -> arrays
        \* the fixed leading argument, if any, then the options
        Args(fn, options) ==
            CASE fn = "enumValue" -> << <<"active", "inactive">>, options >>
              [] fn = "objectArray" -> <<personSchema, options>>
              [] OTHER -> <<options>>
        For(fn) ==
            [n \in 1..Len(OptionsFor(fn)) |-> [fn |-> fn, args |-> Args(fn, OptionsFor(fn)[n])]]
    IN For("uuid") \o For("email") \o For("enumValue")
       \o For("uuidArray") \o For("stringArray") \o For("objectArray")

\* CommonValidations[fn](...args)
ApplyFactory(fn, args) ==
    CASE fn = "uuid" -> uuid(args[1])
      [] fn = "email" -> email(args[1])
      [] fn = "enumValue" ->
            enumValue(args[1], Message(args[2], "type"), Message(args[2], "enum"))
      [] fn = "uuidArray" -> uuidArray(args[1])
      [] fn = "stringArray" -> stringArray(args[1])
      [] fn = "objectArray" -> objectArray(args[1], args[2])

\* the pipe of a route on the values sent to it; validator names what the
\* pipe calls: ajvSchemaValidator itself or the throwing stand-in
PipeJobs ==
    LET requests ==
            Product(<<"personA">>, PersonValues, <<NoValidationOptions>>)
            \o Product(<<"invalidSchema">>, <<Obj(<< <<"test", Str("value")>> >>)>>,
                       <<NoValidationOptions>>)
            \o Product(<<"levels">>, DependencyValues("levels"), <<NoValidationOptions>>)
    IN [n \in 1..Len(requests) |->
           [fn |-> "transform", args |-> <<requests[n], "ajvSchemaValidator">>]]
       \o [n \in 1..2 |-> [fn |-> "transform", args |-> <<requests[n], "throws">>]]

\* the queries sent to a route: one key with each sample text, and pairs of keys
QueryJobs ==
    LET keys == << <<"name">>, <<"age">>, <<"active">>, <<"tags">>,
                   <<"user", "name">>, <<"user", "age">> >>
        texts == << Raw("John", <<"John">>), Raw("42", <<"42">>), Raw("true", <<"true">>),
                    Raw("null", <<"null">>), Raw("undefined", <<"undefined">>),
                    Raw("", <<"">>), Raw("a,b", <<"a", "b">>), Raw("1,2", <<"1", "2">>) >>
        single == [n \in 1..(Len(keys) * Len(texts)) |->
                      << <<keys[((n - 1) % Len(keys)) + 1],
                           texts[((n - 1) \div Len(keys)) + 1]>> >>]
        double == << << <<<<"name">>, texts[1]>>, <<<<"age">>, texts[2]>> >>,
                     << <<<<"user", "name">>, texts[1]>>, <<<<"user", "age">>, texts[2]>> >>,
                     << <<<<"user", "name">>, texts[2]>>, <<<<"tags">>, texts[7]>> >>,
                     << <<<<"name">>, texts[1]>>, <<<<"name">>, texts[3]>> >> >>
        queries == single \o double
    IN [n \in 1..Len(queries) |-> [fn |-> "queryTransform", args |-> <<queries[n]>>]]

MaxSize == 3

\* pages asked with size '0'..MaxSize or no size, from stores that hold up to
\* size + 1 matching entities; in the second kind of store one entity has no id
PageJobs ==
    LET Entity(i, whole) ==
            Obj(<< <<"name", Str(<<"A", "B", "C", "D", "E">>[((i - 1) % 5) + 1])>>,
                   <<"id", IF whole \/ i # 1 THEN Str(ToString(i)) ELSE JNull>> >>)
        Store(n, whole) == [i \in 1..n |-> Entity(i, whole)]
        Page(payload, n, whole) ==
            [fn |-> "paginateWithCursor",
             args |-> <<Store(n, whole), payload, <<"name", "id">> >>]
        Sized(size) ==
            [k \in 1..(2 * (size + 2)) |->
                Page([size |-> ToString(size)], (k - 1) \div 2, k % 2 = 1)]
    IN Concat([size \in 1..(MaxSize + 1) |-> Sized(size - 1)])
       \o << Page(NoOptions, 0, TRUE), Page(NoOptions, DEFAULT_PAGE_SIZE, TRUE),
             Page(NoOptions, DEFAULT_PAGE_SIZE + 1, TRUE) >>

\* raw errors as ajv (allErrors, verbose) with ajv-errors reports them
RawErrors ==
    LET text == [type |-> "string"]
        closed == [type |-> "object",
                   errorMessage |->
                       MessageMap(<< <<"additionalProperties", <<"No extra properties">> >> >>)]
        At(path) == <<"#", "properties">> \o path
        Wrapped(nested, message) ==
            [keyword |-> "errorMessage", instancePath |-> nested.instancePath,
             schemaPath |-> <<"#", "errorMessage">>, params |-> [errors |-> <<nested>>],
             message |-> message, parentSchema |-> nested.parentSchema]
        Type(path) == Err("type", path, At(path), [type |-> "string"], <<"must be string">>, text)
        format == Err("format", <<"email">>, At(<<"email">>), [format |-> "email"],
                      <<"must match format \"", "email", "\"">>, text)
    IN << Type(<<"email">>),
          format,
          Err("minLength", <<"email">>, At(<<"email">>), [limit |-> 8],
              <<"must NOT be shorter than 8 characters">>, text),
          Err("required", <<>>, <<"#">>, [missingProperty |-> "email"],
              <<"must have required property '", "email", "'">>, [type |-> "object"]),
          Wrapped(format, <<"Custom email validation failed">>),
          Wrapped(Err("additionalProperties", <<>>, <<"#">>, [additionalProperty |-> "email"],
                      <<"must NOT have additional properties">>, closed),
                  <<"No extra properties">>),
          Err("if", <<"user">>, At(<<"user">>), [failingKeyword |-> "then"],
              <<"must match \"then\" schema">>, [type |-> "object"]),
          Type(<<"user", "name">>),
          Err("required", <<"user">>, At(<<"user">>) \o <<"then">>, [missingProperty |-> "name"],
              <<"must have required property '", "name", "'">>, [type |-> "object"]),
          Type(<<"username">>),
          Type(<<"user.name">>),
          Type(<<"user">>),
          Err("if", <<>>, <<"#">>, [failingKeyword |-> "then"],
              <<"must match \"then\" schema">>, [type |-> "object"]),
          Err("required", <<"account">>, At(<<"account">>), [missingProperty |-> "name"],
              <<"must have required property '", "name", "'">>, [type |-> "object"]) >>

MaxErrors == 2

RECURSIVE ErrorLists(_)
\* the lists of n raw errors
ErrorLists(n) ==
    IF n = 0 THEN << <<>> >>
    ELSE LET Longer(shorter) ==
                 Concat([i \in 1..Len(shorter) |->
                    [k \in 1..Len(RawErrors) |-> Append(shorter[i], RawErrors[k])]])
         IN Bind(ErrorLists(n - 1), Longer)

MaxDepth == 3

FormatJobs ==
    LET lists == Concat([n \in 1..MaxErrors |-> ErrorLists(n)])
        \* the instance paths of n segments: property names, one of them holding a
        \* digit, and array indices
        segments == <<"items", "address2", "0", "1", "quantity">>
        InstancePaths[n \in 0..MaxDepth] ==
            IF n = 0 THEN << <<>> >>
            ELSE LET Longer(shorter) ==
                         Concat([i \in 1..Len(shorter) |->
                            [k \in 1..Len(segments) |-> Append(shorter[i], segments[k])]])
                 IN Bind(InstancePaths[n - 1], Longer)
        paths == Concat([n \in 1..MaxDepth |-> InstancePaths[n]])
        Type(path) == Err("type", path, <<"#", "properties">> \o path, [type |-> "number"],
                          <<"must be number">>, [type |-> "number"])
    IN [i \in 1..Len(lists) |-> [fn |-> "formatAjvErrors", args |-> <<lists[i]>>]]
       \o [i \in 1..Len(paths) |-> [fn |-> "formatAjvErrors", args |-> << <<Type(paths[i])>> >>]]

MaxItems == 3

\* arrays handed to a schema {type: 'array', <keyword>: true}: up to MaxItems elements
\* that hold the key the keyword reads, lack it, or are null; and every single
\* target over the four units
KeywordJobs ==
    LET Keyed(key) == << Obj(<< <<key, Num(1)>> >>), Obj(<< <<key, Num(2)>> >>),
                         Obj(<< <<key, Str("1")>> >>), Obj(<< <<"label", Str("x")>> >>), JNull >>
        Named(name) == Obj(<< <<"name", Str(name)>>, <<"value", Str("value1")>> >>)
        Order(n) == Obj(<< <<"order", Num(n)>>, <<"name", Str("Alpha")>> >>)
        Pool(kw) ==
            CASE kw = "validateUniqueEscalationOrders" -> Keyed("escalationOrder")
              [] kw = "validateUniqueSeverityLevels" -> Keyed("severity")
              [] kw = "validateUniquePolicyIds" -> Keyed("policyId")
              [] kw = "validateUniquePositions" -> Keyed("position")
              [] kw = "validateUniqueTicketIds" -> Keyed("ticketId")
              [] kw = "validateUniqueFieldOptionNames" ->
                    << Named("Alpha"), Named("ALPHA"), Named("Beta"),
                       Obj(<< <<"value", Str("value1")>> >>), JNull >>
              [] kw = "validateFieldOptionOrders" ->
                    << Order(1), Order(2), Order(3), Order(4),
                       Obj(<< <<"name", Str("Alpha")>> >>), JNull >>
              [] OTHER ->
                    << Target(30, "minutes", 2, "hours"), Target(2, "hours", 30, "minutes"),
                       Target(1, "days", 24, "hours"),
                       Obj(<< <<"respondWithinValue", Num(30)>>,
                              <<"resolveWithinValue", Num(2)>> >>), JNull >>
        Arrays(kw) ==
            LET pool == Pool(kw)
                OfLen[n \in 0..MaxItems] ==
                    IF n = 0 THEN << <<>> >>
                    ELSE LET Longer(shorter) ==
                                 Concat([i \in 1..Len(shorter) |->
                                    [k \in 1..Len(pool) |-> Append(shorter[i], pool[k])]])
                         IN Bind(OfLen[n - 1], Longer)
            IN Concat([n \in 1..(MaxItems + 1) |-> OfLen[n - 1]])
        units == <<"minutes", "hours", "days", "months">>
        amounts == <<1, 24, 30, 60>>
        durations == Concat([u \in 1..4 |-> [a \in 1..4 |-> <<amounts[a], units[u]>>]])
        targets == Concat([p \in 1..Len(durations) |-> [r \in 1..Len(durations) |->
                       <<Target(durations[p][1], durations[p][2],
                                durations[r][1], durations[r][2])>>]])
        Jobs(kw, arrays) ==
            [i \in 1..Len(arrays) |-> [fn |-> "validateFn", args |-> <<kw, Arr(arrays[i])>>]]
    IN Concat([k \in 1..Len(ArrayKeywords) |->
                  Jobs(ArrayKeywords[k][1], Arrays(ArrayKeywords[k][1]))])
       \o Jobs("validateTimeRelation", targets)

Jobs ==
    LET amounts == <<0 - 1, 0, 1, 2, 30>>
        units == <<"minutes", "hours", "days", "months", "unknown">>
        names == <<"Field A", "Field B", " Field C", " ", "Custom field definition name 01",
                   "Custom field definition name 02", "">>
        ids == <<"11111111-1111-1111-1111-111111111111", "">>
        \* convertToMinutes(value, unit)
        minuteJobs == Concat([a \in 1..Len(amounts) |-> [u \in 1..Len(units) |->
                          [fn |-> "convertToMinutes", args |-> <<amounts[a], units[u]>>]]])
        \* the cursors of two entities that share an id: encodeCursor(name, id) and
        \* encodeCursor(other, id), each handed to decodeCursor
        cursorJobs == Concat(Concat([a \in 1..Len(names) |-> [b \in 1..Len(names) |->
                          [i \in 1..Len(ids) |->
                              [fn |-> "decodeCursor", args |-> <<names[a], ids[i], names[b]>>]]]]))
    IN FactoryJobs \o PipeJobs \o QueryJobs \o PageJobs \o FormatJobs \o KeywordJobs
       \o minuteJobs \o cursorJobs

InitFn ==
    /\ compiled = {}
    /\ compiles = [id \in SchemaIds |-> 0]
    /\ slot = [id \in SchemaIds |-> NoValidator]
    /\ calls = 0
    /\ \E n \in 1..Len(Jobs) :
          last = [h \in Handlers |->
                     IF h = "h1" THEN [kind |-> "pending"] @@ Jobs[n]
                     ELSE [kind |-> "idle"]]

Return(h, out) ==
    /\ last' = [last EXCEPT ![h] = [kind |-> "returned", fn |-> last[h].fn,
                                    args |-> last[h].args, out |-> out]]
    /\ UNCHANGED <<compiled, compiles, slot, calls>>

Build ==
    \E h \in Handlers :
        /\ last[h].kind = "pending"
        /\ last[h].fn \in FactoryNames
        /\ Return(h, ApplyFactory(last[h].fn, last[h].args))

\* SchemaAjvValidationPipe.transform: the call of the validator and what follows
Transform ==
    \E h \in Handlers :
        /\ last[h].kind = "pending"
        /\ last[h].fn = "transform"
        /\ LET req == last[h].args[1]
               Outcome(response) ==
                   [kind |-> "returned", fn |-> last[h].fn, args |-> last[h].args,
                    response |-> response,
                    out |-> SchemaAjvValidationPipe_transform(req.value, response)]
           IN IF last[h].args[2] = "throws"
              THEN /\ last' = [last EXCEPT ![h] = Outcome(ValidatorThrew)]
                   /\ UNCHANGED <<compiled, compiles, slot, calls>>
              ELSE \E r \in {ajvSchemaValidator(IsCached(req.schema), SchemaOf(req.schema),
                                                slot[req.schema], req.value, req.options)} :
                      /\ compiled' = IF r.didCompile THEN compiled \cup {req.schema}
                                      ELSE compiled
                      /\ compiles' = [compiles EXCEPT
                                         ![req.schema] = @ + (IF r.didCompile THEN 1 ELSE 0)]
                      /\ slot' = [slot EXCEPT ![req.schema] = r.slot]
                      /\ calls' = calls + 1
                      /\ last' = [last EXCEPT ![h] =
                                     Outcome([returned |-> r.returned, result |-> r.result])]

\* QueryParamValidationPipe.transform on the query schema
QueryTransform ==
    \E h \in Handlers :
        /\ last[h].kind = "pending"
        /\ last[h].fn = "queryTransform"
        /\ \E parsedValue \in {parseQueryParams(querySchema, last[h].args[1],
                                                 Len(last[h].args[1]))} :
           \E r \in {ajvSchemaValidator(IsCached("query"), querySchema, slot["query"],
                                        parsedValue, NoValidationOptions)} :
              /\ compiled' = IF r.didCompile THEN compiled \cup {"query"} ELSE compiled
              /\ compiles' = [compiles EXCEPT !["query"] = @ + (IF r.didCompile THEN 1 ELSE 0)]
              /\ slot' = [slot EXCEPT !["query"] = r.slot]
              /\ calls' = calls + 1
              /\ last' = [last EXCEPT ![h] =
                             [kind |-> "returned", fn |-> last[h].fn, args |-> last[h].args,
                              parsed |-> parsedValue,
                              out |-> QueryParamValidationPipe_transform(
                                          parsedValue,
                                          [returned |-> r.returned, result |-> r.result])]]

\* paginateWithCursor, the fetch included
Paginate ==
    \E h \in Handlers :
        /\ last[h].kind = "pending"
        /\ last[h].fn = "paginateWithCursor"
        /\ Return(h, paginateWithCursor(last[h].args[1], last[h].args[2], last[h].args[3]))

Format ==
    \E h \in Handlers :
        /\ last[h].kind = "pending"
        /\ last[h].fn = "formatAjvErrors"
        /\ Return(h, formatAjvErrors(last[h].args[1]))

\* the validator ajv compiles for {type: 'array', [keyword]: true}, run on the array
Keyword ==
    \E h \in Handlers :
        /\ last[h].kind = "pending"
        /\ last[h].fn = "validateFn"
        /\ Return(h, RunValidator([type |-> "array"] @@ (last[h].args[1] :> TRUE),
                                  last[h].args[2]))

Convert ==
    \E h \in Handlers :
        /\ last[h].kind = "pending"
        /\ last[h].fn = "convertToMinutes"
        /\ Return(h, [minutes |-> convertToMinutes(last[h].args[1], last[h].args[2])])

\* decodeCursor(encodeCursor(name, id)) for the two names of the job
Decode ==
    \E h \in Handlers :
        /\ last[h].kind = "pending"
        /\ last[h].fn = "decodeCursor"
        /\ LET There(name) ==
                   LET token == encodeCursor(name, last[h].args[2])
                   IN IF Has(token, "threw") THEN token ELSE decodeCursor(token.cursor)
           IN Return(h, [first |-> There(last[h].args[1]), second |-> There(last[h].args[3])])

NextFn ==
    Build \/ Transform \/ QueryTransform \/ Paginate \/ Format \/ Keyword \/ Convert \/ Decode

SpecFn == InitFn /\ [][NextFn]_vars

----------------------------------------------------------------------------
(* A walk through a store, page by page: every call of paginateWithCursor   *)
(* is handed the nextPageToken of the call before it.                      *)

MaxPages == 8

\* the fetchFn of a store sorted by name, then id: the first size entities strictly
\* after the cursor that payload.nextPageToken decodes to, all of them from the
\* start when there is no token.  Strings compare as in JavaScript.
fetchFn(data, payload, size) ==
    LET order == << " Field C", "Custom field definition name 0",
                    "Custom field definition name 01", "Custom field definition name 02",
                    "Field A", "Field B", "Field C", "id-1", "id-2", "id-3", "id-4", "id-5",
                    "id-6" >>
        Rank(text) == CHOOSE k \in 1..Len(order) : order[k] = text
        cursor == decodeCursor(payload.nextPageToken)
        After(entity) ==
            \/ ~Has(payload, "nextPageToken")
            \/ Rank(GetKey(entity, "name").v) > Rank(cursor.name)
            \/ /\ GetKey(entity, "name").v = cursor.name
               /\ Rank(GetKey(entity, "id").v) > Rank(cursor.id)
        rest == SelectSeq(data, After)
    IN SubSeq(rest, 1, IF Len(rest) < size THEN Len(rest) ELSE size)

\* a store holds some of six entities, in order: one name with a leading blank, two
\* names of 31 characters that differ in the last one, two entities of one name
InitWalk ==
    /\ compiled = {}
    /\ compiles = [id \in SchemaIds |-> 0]
    /\ slot = [id \in SchemaIds |-> NoValidator]
    /\ calls = 0
    /\ \E held \in SUBSET (1..6), size \in 1..MaxSize :
          LET Entity(k) ==
                  Obj(<< <<"name", Str(<<" Field C", "Custom field definition name 01",
                                        "Custom field definition name 02", "Field A",
                                        "Field A", "Field B">>[k])>>,
                         <<"id", Str(<<"id-1", "id-2", "id-3", "id-4", "id-5", "id-6">>[k])>> >>)
              all == [k \in 1..6 |-> Entity(k)]
              Held(entity) == \E k \in held : entity = Entity(k)
          IN last = [h \in Handlers |->
                        IF h = "h1"
                        THEN [kind |-> "walking", data |-> SelectSeq(all, Held),
                              payload |-> [size |-> ToString(size)], seen |-> <<>>]
                        ELSE [kind |-> "idle"]]

\* one call paginateWithCursor(fetchFn, payload, ['name', 'id']) and what the caller
\* keeps of it: the items, and the token for the next call
NextPage ==
    \E h \in Handlers :
        /\ last[h].kind = "walking"
        /\ calls < MaxPages
        /\ LET walk == last[h]
               size == CHOOSE n \in 1..(MaxSize + 1) : ToString(n) = walk.payload.size
           IN \E page \in {paginateWithCursor(fetchFn(walk.data, walk.payload, size + 1),
                                              walk.payload, <<"name", "id">>)} :
                 last' = [last EXCEPT ![h] =
                    IF Has(page, "threw") THEN [walk EXCEPT !.kind = "failed"]
                    ELSE IF Has(page.nextPageToken, "cursor")
                    THEN [walk EXCEPT !.seen = walk.seen \o page.items,
                                      !.payload = [size |-> walk.payload.size,
                                                   nextPageToken |-> page.nextPageToken.cursor]]
                    ELSE [walk EXCEPT !.kind = "ended", !.seen = walk.seen \o page.items]]
        /\ calls' = calls + 1
        /\ UNCHANGED <<compiled, compiles, slot>>

SpecWalk == InitWalk /\ [][NextPage]_vars

----------------------------------------------------------------------------
(* Properties                                                              *)

Done(h) == last[h].kind = "done"

NoErrors(result) == result.errors.null \/ Len(result.errors.list) = 0

HasSchemaError(result) ==
    /\ ~result.errors.null
    /\ \E i \in 1..Len(result.errors.list) : result.errors.list[i].field = <<"_schema">>

\* the message tokens that hold the word 'required'
RequiredWords ==
    {"' is required", "must have required property '", "Name is required", "Age is required"}

\* C1: every result has isValid true exactly when its errors are null or an
\* empty list; a result with isValid false holds at least one error
C1_ValidIffNoErrors ==
    \A h \in Handlers : Done(h) => (last[h].result.isValid <=> NoErrors(last[h].result))

\* C2: every call returns to its caller, and a call on a schema that fails to
\* compile returns exactly the '_schema' result, with no other key or error
C2_TotalWithSchemaError ==
    \A h \in Handlers :
        Done(h) =>
            /\ last[h].returned
            /\ Malformed(SchemaOf(last[h].req.schema)) => last[h].result = SchemaErrorResult

C2_Witness ==
    \E h \in Handlers :
        /\ Done(h)
        /\ Malformed(SchemaOf(last[h].req.schema))
        /\ Has(last[h].req.options, "debug")
        /\ last[h].returned
        /\ last[h].result = SchemaErrorResult

\* C3: a call on a schema that compiles never returns the '_schema' error,
\* whatever the value is
C3_TiersDisjoint ==
    \A h \in Handlers :
        (Done(h) /\ ~Malformed(SchemaOf(last[h].req.schema)))
            => ~HasSchemaError(last[h].result)

\* C4: when the value of a call is a valid value of its object schema with a
\* required field F removed, the result has isValid false and exactly one
\* error, whose field is F and whose message contains 'required'
C4_RequiredRemoved ==
    \A h \in Handlers :
        Done(h) =>
            LET req == last[h].req
                S == SchemaOf(req.schema)
                res == last[h].result
                RemovedFrom(V, F) ==
                    /\ HasKey(V, F)
                    /\ req.value = WithoutKey(V, F)
                    /\ RunValidator(S, V) = <<>>
            IN (Has(S, "type") /\ S.type = "object" /\ Has(S, "required")) =>
                  \A i \in 1..Len(S.required) : \A n \in 1..Len(Library) :
                      (Library[n].schema = req.schema
                       /\ RemovedFrom(Library[n].value, S.required[i]))
                          => /\ ~res.isValid
                             /\ ~res.errors.null
                             /\ Len(res.errors.list) = 1
                             /\ res.errors.list[1].field = NameTokens(S.required[i])
                             /\ Contains(res.errors.list[1].message, RequiredWords)

\* C5: in a call with customMessages, every returned error that stems from a
\* raw error whose keyword has an entry carries that entry's text as message
C5_CustomMessagesCarried ==
    \A h \in Handlers :
        (Done(h) /\ Has(last[h].req.options, "customMessages")
                 /\ ~Malformed(SchemaOf(last[h].req.schema))) =>
            LET req == last[h].req
                texts == req.options.customMessages
                raw == RunValidator(SchemaOf(req.schema), req.value)
                mapped == ApplyCustomMessages(texts, raw)
                res == last[h].result
            IN (~Threw(raw) /\ ~res.errors.null) =>
                  \A i \in 1..Len(raw) : \A j \in 1..Len(res.errors.list) :
                      (Has(texts, raw[i].keyword)
                       /\ res.errors.list[j] = Shape(Normalize(mapped[i])))
                          => res.errors.list[j].message = texts[raw[i].keyword]

C7_CallsIndependent ==
    \A h \in Handlers :
        Done(h) => /\ last[h].returned
                   /\ last[h].result = Alone(last[h].req).result

C7_Witness ==
    \E h1, h2 \in Handlers :
        /\ Done(h1) /\ Done(h2)
        /\ last[h1].at < last[h2].at
        /\ last[h1].req.schema = last[h2].req.schema
        /\ last[h1].req.value # last[h2].req.value
        /\ ~last[h1].result.isValid /\ ~last[h2].result.isValid
        /\ Has(last[h2].result, "rawErrors")
        /\ last[h1].result.errors # last[h2].result.errors
        /\ last[h2].result = Alone(last[h2].req).result

C9_TopLevelFailureKept ==
    \A h \in Handlers :
        (Done(h) /\ ~Malformed(SchemaOf(last[h].req.schema))) =>
            LET raw == RunValidator(SchemaOf(last[h].req.schema), last[h].req.value)
                res == last[h].result
            IN ~Threw(raw) =>
                  \A i \in 1..Len(raw) :
                      (raw[i].keyword = "errorMessage" /\ raw[i].instancePath = <<>>)
                          => /\ ~res.errors.null
                             /\ \E j \in 1..Len(res.errors.list) :
                                   /\ res.errors.list[j].message = raw[i].message
                                   /\ ~Has(res.errors.list[j], "path")

\* the payload shape fieldDefinitionValidation fixes for a fieldType
ShapeFor(fieldType, selectedValue) ==
    CASE fieldType \in {"label", "dropdown"} ->
            /\ selectedValue.t = "array"
            /\ \A i \in 1..Len(selectedValue.v) : selectedValue.v[i].t = "string"
      [] fieldType \in {"text", "textarea"} -> selectedValue.t = "string"
      [] fieldType \in {"date", "number"} -> selectedValue.t = "number"
      [] fieldType \in {"files", "people"} ->
            /\ selectedValue.t = "array"
            /\ \A i \in 1..Len(selectedValue.v) :
                  selectedValue.v[i].t = "string" /\ selectedValue.v[i].v \in UuidStrings

\* an instance with a UUID customFieldDefinitionId and one of the eight fieldTypes
FieldInstance(V) ==
    /\ V.t = "object"
    /\ GetKey(V, "customFieldDefinitionId").t = "string"
    /\ GetKey(V, "customFieldDefinitionId").v \in UuidStrings
    /\ GetKey(V, "fieldType").t = "string"
    /\ InSeq(GetKey(V, "fieldType").v, AllFieldTypes)

ShapeOrAbsent(V) ==
    ~HasKey(V, "selectedValue")
    \/ ShapeFor(GetKey(V, "fieldType").v, GetKey(V, "selectedValue"))

FieldDefinitionSchemas == {"fieldDefinitionAll", "fieldDefinitionTest"}

\* C10 as stated: on a fieldDefinitionValidation schema, an instance with a
\* valid id and one of the eight fieldTypes is valid exactly when
\* selectedValue is absent or has the shape of its fieldType
C10_ShapeDecides ==
    \A h \in Handlers :
        (Done(h) /\ last[h].req.schema \in FieldDefinitionSchemas
                 /\ FieldInstance(last[h].req.value))
            => (last[h].result.isValid <=> ShapeOrAbsent(last[h].req.value))

\* C10, amended: the same, for the fieldTypes that the schema's fieldTypeEnum
\* lists; a numeric string is not accepted where a number is due
C10_ShapeDecidesListed ==
    \A h \in Handlers :
        (Done(h) /\ last[h].req.schema \in FieldDefinitionSchemas
                 /\ FieldInstance(last[h].req.value)
                 /\ InSeq(GetKey(last[h].req.value, "fieldType").v,
                          IF last[h].req.schema = "fieldDefinitionAll"
                          THEN AllFieldTypes ELSE TestFieldTypeEnum))
            => (last[h].result.isValid <=> ShapeOrAbsent(last[h].req.value))

C10_Witness ==
    \E h \in Handlers :
        /\ Done(h)
        /\ last[h].req.schema \in FieldDefinitionSchemas
        /\ FieldInstance(last[h].req.value)
        /\ GetKey(last[h].req.value, "fieldType") = Str("number")
        /\ GetKey(last[h].req.value, "selectedValue") = Str("42")
        /\ ~last[h].result.isValid

\* the result of the call handler h made, when it returned from operation fn
Returned(h, fns) == last[h].kind = "returned" /\ last[h].fn \in fns

Raised(out) == Has(out, "threw")

\* the text the fragment embeds for the constraint the caller's text is meant for
Embedded(fn, fragment, kind) ==
    IF kind = "items" /\ fn = "uuidArray" THEN SchemaMessage(fragment.items, "format")
    ELSE IF kind = "items" /\ fn = "stringArray"
    THEN SchemaMessage(fragment.items, "isNotEmpty")
    ELSE SchemaMessage(fragment, kind)

\* C11: a factory embeds, for every constraint kind the caller supplies a text for in
\* options.errorMessages, exactly the caller's text as that constraint's message.
C11_OverrideEmbedded ==
    \A h \in Handlers :
        Returned(h, FactoryNames) /\ ~Raised(last[h].out) =>
            LET options == last[h].args[Len(last[h].args)]
            IN Has(options, "errorMessages") =>
                  \A kind \in DOMAIN options.errorMessages :
                      Embedded(last[h].fn, last[h].out, kind) = options.errorMessages[kind]

\* C12: no factory throws while constructing its fragment, whatever the options,
\* omitted options included.
C12_FactoriesTotal ==
    \A h \in Handlers : Returned(h, FactoryNames) => ~Raised(last[h].out)

\* the rule's condition as stated: every dependsOn key present, every key that is
\* no wildcard holding an allowed value, and the field absent
RuleApplies(d, value) ==
    /\ \A i \in 1..Len(d.dependsOn) :
          /\ HasKey(value, d.dependsOn[i][1])
          /\ Has(d.dependsOn[i][2], "values") =>
                 /\ GetKey(value, d.dependsOn[i][1]).t = "string"
                 /\ InSeq(GetKey(value, d.dependsOn[i][1]).v, d.dependsOn[i][2].values)
    /\ ~HasKey(value, d.field)

\* the object meets the property schemas the rules are attached to
MeetsProperties(id, value) ==
    LET S == dependencySchema(id)
    IN RunValidator([k \in DOMAIN S \ {"allOf"} |-> S[k]], value) = <<>>

\* C13: an object that meets the property schemas is rejected by a dependencyChain
\* schema exactly when, for some rule, every dependsOn key is present, every
\* non-wildcard key holds an allowed value and the rule's field is absent; a
\* wildcard key counts by its presence alone, whatever its value.
C13_RejectedIffRuleApplies ==
    \A h \in Handlers :
        (Done(h) /\ last[h].req.schema \in DependencyIds
                 /\ MeetsProperties(last[h].req.schema, last[h].req.value))
            => (~last[h].result.isValid <=>
                   \E i \in 1..Len(Dependencies(last[h].req.schema)) :
                       RuleApplies(Dependencies(last[h].req.schema)[i], last[h].req.value))

RECURSIVE GetPath(_, _)
\* value[k1][k2]...
GetPath(value, path) ==
    IF Len(path) = 0 THEN value ELSE GetPath(GetKey(value, path[1]), Tail(path))

\* C15: QueryParamValidationPipe.transform keeps a query value as the string it
\* arrived as whenever the schema declares the property's type as string, whatever
\* the text looks like (a number, 'true', 'null', a text with a comma).
C15_StringsPreserved ==
    \A h \in Handlers :
        Returned(h, {"queryTransform"}) =>
            \A i \in 1..Len(last[h].args[1]) :
                LET path == last[h].args[1][i][1]
                    raw == last[h].args[1][i][2]
                    declared == getPropertySchema(querySchema, path)
                    \* a later entry for the same key replaces this one
                    Final == \A j \in (i + 1)..Len(last[h].args[1]) :
                                 last[h].args[1][j][1] # path
                IN (Final /\ Has(declared, "type") /\ declared.type = "string")
                      => /\ GetPath(last[h].parsed, path).t = "string"
                         /\ GetPath(last[h].parsed, path).v = raw.text

\* C16: for a numeric size string and a fetch that yields at most size + 1 entities,
\* paginateWithCursor returns at most size items and pageSize = size; when the fetch
\* yielded size + 1 entities the extra one is dropped and nextPageToken encodes the
\* two cursor fields of the last returned item; otherwise nextPageToken is null and
\* every fetched entity is returned.
C16_PageAndToken ==
    \A h \in Handlers :
        (Returned(h, {"paginateWithCursor"}) /\ Has(last[h].args[2], "size")) =>
            LET fetched == last[h].args[1]
                size == CHOOSE n \in 0..DEFAULT_PAGE_SIZE : ToString(n) = last[h].args[2].size
                out == last[h].out
            IN /\ ~Raised(out)
               /\ Len(out.items) <= size
               /\ out.pageSize = size
               /\ IF Len(fetched) = size + 1
                  THEN /\ out.items = SubSeq(fetched, 1, size)
                       /\ Has(out.nextPageToken, "cursor")
                       /\ out.nextPageToken.cursor =
                              [n |-> GetKey(fetched[size], "name").v,
                               i |-> GetKey(fetched[size], "id").v]
                  ELSE /\ out.items = fetched
                       /\ out.nextPageToken = JNull

\* the entry a raw error is turned into before deduplication
EntryOf(error) ==
    IF IsWrappedAdditional(error) THEN WrappedAdditionalEntry(error) ELSE Normalize(error)

\* C17: formatAjvErrors returns at most one entry per field, and the entry of a
\* field carries the message of the highest-priority raw error for that field, the
\* first one in input order among equals; wrapped additionalProperties included.
C17_HighestPriorityFirstWins ==
    \A h \in Handlers :
        Returned(h, {"formatAjvErrors"}) =>
            LET errors == last[h].args[1]
                out == last[h].out
                Same(f) == {k \in 1..Len(errors) : EntryOf(errors[k]).field = f}
                Best(f) == {k \in Same(f) :
                               \A j \in Same(f) :
                                   EntryOf(errors[j]).priority <= EntryOf(errors[k]).priority}
                Winner(f) == CHOOSE k \in Best(f) : \A j \in Best(f) : k <= j
            IN /\ \A i, j \in 1..Len(out) : out[i].field = out[j].field => i = j
               /\ \A i \in 1..Len(out) :
                      out[i].message = EntryOf(errors[Winner(out[i].field)]).message

\* a wrapped custom message that is no additionalProperties failure
IsCustomMessage(error) == error.keyword = "errorMessage" /\ ~IsWrappedAdditional(error)

\* the keywords the rules give priority 1: required and the ones without a rule
IsLowPriority(error) ==
    error.keyword \notin {"type", "enum", "pattern", "additionalProperties", "format",
                          "errorMessage"}

\* C18: a wrapped custom message ranks above a priority-1 raw error on the same
\* field: when the errors on a field are custom messages and priority-1 errors, the
\* field's entry carries the custom text, whatever the order of the raw list.
C18_CustomMessageSurvives ==
    \A h \in Handlers :
        Returned(h, {"formatAjvErrors"}) =>
            LET errors == last[h].args[1]
                out == last[h].out
            IN \A a \in 1..Len(errors) :
                  (/\ IsCustomMessage(errors[a])
                   /\ \A k \in 1..Len(errors) :
                         EntryOf(errors[k]).field = EntryOf(errors[a]).field =>
                             \/ IsLowPriority(errors[k])
                             \/ errors[k] = errors[a])
                  => \E i \in 1..Len(out) :
                        /\ out[i].field = EntryOf(errors[a]).field
                        /\ out[i].message = errors[a].message

IsThenError(error) ==
    error.keyword = "if" /\ error.message = ThenMessage /\ Len(error.instancePath) > 0

\* error is a failure of a child of the value at path: it lies below path, or it
\* reports a required property missing from the value at path
IsChildFailure(error, path) ==
    \/ Len(error.instancePath) > Len(path) /\ IsPrefix(path, error.instancePath)
    \/ error.keyword = "required" /\ error.instancePath = path

HasThenEntry(out, path) ==
    \E i \in 1..Len(out) :
        out[i].message = ThenMessage /\ out[i].field = getFieldFromPath(path)

\* C19: when the conditional branch fails for a field F and a child of F fails too,
\* a missing required child property included, the result holds the child's error
\* and no generic 'must match "then" schema' entry for F.
C19_ChildErrorReplacesGeneric ==
    \A h \in Handlers :
        Returned(h, {"formatAjvErrors"}) =>
            LET errors == last[h].args[1]
                out == last[h].out
            IN \A t, c \in 1..Len(errors) :
                  (IsThenError(errors[t]) /\ IsChildFailure(errors[c], errors[t].instancePath))
                  => /\ \E i \in 1..Len(out) : out[i].field = EntryOf(errors[c]).field
                     /\ ~HasThenEntry(out, errors[t].instancePath)

\* C20: the generic conditional-branch entry of F is removed only if an error that
\* survives lies at a strictly longer instance path that starts with F's path.
C20_RemovedOnlyForDescendant ==
    \A h \in Handlers :
        Returned(h, {"formatAjvErrors"}) =>
            LET errors == last[h].args[1]
                out == last[h].out
                map == BuildErrorMap(errors, Len(errors))
            IN \A t \in 1..Len(errors) :
                  (/\ IsThenError(errors[t])
                   /\ MapHas(map, EntryOf(errors[t]).field)
                   /\ MapGet(map, EntryOf(errors[t]).field).message = ThenMessage
                   /\ ~HasThenEntry(out, errors[t].instancePath))
                  => \E c \in 1..Len(errors) :
                        /\ Len(errors[c].instancePath) > Len(errors[t].instancePath)
                        /\ IsPrefix(errors[t].instancePath, errors[c].instancePath)
                        /\ \E i \in 1..Len(out) : out[i].field = EntryOf(errors[c]).field

\* the priority the entry of a returned field had in the map
PriorityIn(errors, field) == MapGet(BuildErrorMap(errors, Len(errors)), field).priority

\* C21: a list formatAjvErrors returns is in non-increasing priority order, and no
\* entry of it has both an empty field and priority 1.
C21_SortedNoAnonymous ==
    \A h \in Handlers :
        Returned(h, {"formatAjvErrors"}) =>
            LET errors == last[h].args[1]
                out == last[h].out
            IN /\ \A i, j \in 1..Len(out) :
                      i < j => PriorityIn(errors, out[i].field) >= PriorityIn(errors, out[j].field)
               /\ \A i \in 1..Len(out) :
                      ~(out[i].field = <<>> /\ PriorityIn(errors, out[i].field) = 1)

\* two raw errors on two fields, the lower priority first: the result holds both,
\* the higher priority first
C21_Witness ==
    \E h \in Handlers :
        /\ Returned(h, {"formatAjvErrors"})
        /\ Len(last[h].args[1]) = 2
        /\ EntryOf(last[h].args[1][1]).priority < EntryOf(last[h].args[1][2]).priority
        /\ Len(last[h].out) = 2
        /\ last[h].out[1].field = EntryOf(last[h].args[1][2]).field
        /\ last[h].out[2].field = EntryOf(last[h].args[1][1]).field

RECURSIVE DottedIndexed(_)
\* the segments joined with '.', an all-digit segment as '[n]' on what precedes it
DottedIndexed(path) ==
    IF Len(path) = 0 THEN <<>>
    ELSE LET before == DottedIndexed(SubSeq(path, 1, Len(path) - 1))
             seg == path[Len(path)]
         IN IF IsAllDigits(seg) THEN before \o <<"[", seg, "]">>
            ELSE IF before = <<>> THEN NameTokens(seg)
            ELSE before \o <<".">> \o NameTokens(seg)

\* a returned formatAjvErrors call on one error whose field comes from its path
PathDerived(h) ==
    /\ Returned(h, {"formatAjvErrors"})
    /\ Len(last[h].args[1]) = 1
    /\ last[h].args[1][1].keyword \in {"type", "format", "minLength", "if"}
    /\ Len(last[h].args[1][1].instancePath) > 0

\* C22: the field of a normalized error is its instance path with the non-numeric
\* segments joined by '.' and every all-digit segment rendered as '[n]' after what
\* precedes it; no all-digit segment follows a '.'.
C22_FieldFromPath == \A h \in Handlers : PathDerived(h) =>
    LET path == last[h].args[1][1].instancePath  out == last[h].out
    IN /\ Len(out) = 1
       /\ out[1].field = DottedIndexed(path)
       /\ \A i \in 2..Len(out[1].field) :
              IsAllDigits(out[1].field[i]) => out[1].field[i - 1] = "["

\* /items/0/quantity came back as items[0].quantity
C22_Witness == \E h \in Handlers :
    /\ PathDerived(h)
    /\ last[h].args[1][1].instancePath = <<"items", "0", "quantity">>
    /\ last[h].out[1].field = <<"items", "[", "0", "]", ".", "quantity">>

\* handler h ran the validator of one of the keywords kws on an array
KeywordRun(h, kws) == Returned(h, {"validateFn"}) /\ last[h].args[1] \in kws

Accepted(out) == Len(out) = 0

\* the one raw error is the keyword's, with the message the keyword was registered with
Rejected(out, kw) ==
    /\ Len(out) = 1
    /\ out[1].keyword = kw
    /\ \E k \in 1..Len(ArrayKeywords) :
          ArrayKeywords[k][1] = kw /\ out[1].message = ArrayKeywords[k][2]

\* equal as JSON scalars
SameKey(a, b) == a.t = b.t /\ a.v = b.v

UniqueKeywords ==
    {"validateUniqueEscalationOrders", "validateUniqueSeverityLevels", "validateUniquePolicyIds",
     "validateUniquePositions", "validateUniqueTicketIds", "validateUniqueFieldOptionNames"}

\* the key a uniqueness keyword compares: the element's property, the option name
\* in lower case
ExtractedKey(kw, item) ==
    LET name == CASE kw = "validateUniqueEscalationOrders" -> "escalationOrder"
                  [] kw = "validateUniqueSeverityLevels" -> "severity"
                  [] kw = "validateUniquePolicyIds" -> "policyId"
                  [] kw = "validateUniquePositions" -> "position"
                  [] kw = "validateUniqueTicketIds" -> "ticketId"
                  [] OTHER -> "name"
        key == GetKey(item, name)
    IN IF kw = "validateUniqueFieldOptionNames" /\ key.t = "string"
       THEN Str(ToLowerCase(key.v)) ELSE key

\* C23: a uniqueness keyword accepts an array exactly when the keys of its elements
\* are pairwise distinct; it accepts every array of at most one element and rejects,
\* with its fixed message, every array in which two elements share a key.
C23_UniqueIffDistinct == \A h \in Handlers : KeywordRun(h, UniqueKeywords) =>
    LET kw == last[h].args[1]  items == last[h].args[2].v  out == last[h].out
        keys == [i \in 1..Len(items) |-> ExtractedKey(kw, items[i])]
        Distinct == \A i, j \in 1..Len(keys) : SameKey(keys[i], keys[j]) => i = j
    IN /\ Accepted(out) <=> Distinct
       /\ Len(items) <= 1 => Accepted(out)
       /\ ~Distinct => Rejected(out, kw)

\* a lone target is well formed: two numbers, two units
WellFormedTarget(target) ==
    /\ GetKey(target, "resolveWithinValue").t = "number"
    /\ GetKey(target, "respondWithinValue").t = "number"
    /\ GetKey(target, "resolveWithinUnit").t = "string"
    /\ GetKey(target, "respondWithinUnit").t = "string"

\* minutes of a duration: hours = 60, days = 1440, months = 43200
Minutes(value, unit) ==
    CASE unit = "hours" -> value * 60
      [] unit = "days" -> value * 1440
      [] unit = "months" -> value * 43200
      [] OTHER -> value

ResolveExceedsRespond(target) ==
    Minutes(GetKey(target, "resolveWithinValue").v, GetKey(target, "resolveWithinUnit").v)
        > Minutes(GetKey(target, "respondWithinValue").v, GetKey(target, "respondWithinUnit").v)

OrdersInSequence(items) ==
    /\ SameKey(GetKey(items[1], "order"), Num(1))
    /\ \A i \in 2..Len(items) :
          /\ GetKey(items[i], "order").t = "number"
          /\ GetKey(items[i - 1], "order").t = "number"
          /\ GetKey(items[i], "order").v = GetKey(items[i - 1], "order").v + 1

\* C25: validateFieldOptionOrders accepts a non-empty array exactly when the first
\* order is 1 and each later order is the previous one plus 1, in array order; an
\* array it does not accept and whose elements are objects is rejected with the
\* keyword's message.
C25_OrdersInSequence == \A h \in Handlers : KeywordRun(h, {"validateFieldOptionOrders"}) =>
    LET items == last[h].args[2].v  out == last[h].out
    IN Len(items) > 0 =>
          /\ Accepted(out) <=> OrdersInSequence(items)
          /\ (~Accepted(out) /\ \A i \in 1..Len(items) : items[i].t = "object")
                => Rejected(out, "validateFieldOptionOrders")

\* the orders 1, 3, 2 were rejected
C25_Witness == \E h \in Handlers :
    /\ KeywordRun(h, {"validateFieldOptionOrders"})
    /\ Len(last[h].args[2].v) = 3
    /\ \A i \in 1..3 : SameKey(GetKey(last[h].args[2].v[i], "order"), Num(<<1, 3, 2>>[i]))
    /\ Rejected(last[h].out, "validateFieldOptionOrders")

\* C26: validateTimeRelation accepts an array of well formed targets exactly when
\* every target's resolve time in minutes is strictly greater than its respond time
\* in minutes, and rejects it with the keyword's message otherwise.
C26_ResolveExceedsRespond == \A h \in Handlers : KeywordRun(h, {"validateTimeRelation"}) =>
    LET items == last[h].args[2].v  out == last[h].out
    IN (\A i \in 1..Len(items) : WellFormedTarget(items[i])) =>
          /\ Accepted(out) <=> \A i \in 1..Len(items) : ResolveExceedsRespond(items[i])
          /\ ~Accepted(out) => Rejected(out, "validateTimeRelation")

\* 'respond within 1 days, resolve within 24 hours' was rejected
C26_Witness == \E h \in Handlers :
    /\ KeywordRun(h, {"validateTimeRelation"})
    /\ last[h].args[2].v = <<Target(1, "days", 24, "hours")>>
    /\ Rejected(last[h].out, "validateTimeRelation")

\* C28: two required-property failures at different instance paths both appear in
\* the list formatAjvErrors returns, one entry each, also when the missing
\* properties have the same name.
C28_DistinctLocationsKept == \A h \in Handlers : Returned(h, {"formatAjvErrors"}) =>
    LET errors == last[h].args[1]  out == last[h].out
    IN (/\ Len(errors) = 2
        /\ errors[1].keyword = "required" /\ errors[2].keyword = "required"
        /\ errors[1].instancePath # errors[2].instancePath)
       => /\ Len(out) = 2
          /\ \A i \in 1..2 : \E k \in 1..2 :
                out[k].field = NameTokens(errors[i].params.missingProperty)
                /\ Has(out[k], "path") = (Len(errors[i].instancePath) > 0)
                /\ (Has(out[k], "path") => out[k].path = errors[i].instancePath)

\* C29: for every value and every unit among minutes, hours, days and months, the
\* convertToMinutes exported by common-validations returns what the convertToMinutes
\* of the validateTimeRelation keyword returns.
C29_SameMinutes == \A h \in Handlers : Returned(h, {"convertToMinutes"}) =>
    (last[h].args[2] \in {"minutes", "hours", "days", "months"}
        => last[h].out.minutes = convertToMinutesKw(last[h].args[1], last[h].args[2]))

\* C30: for a non-empty name and a non-empty id, decodeCursor(encodeCursor(name, id))
\* is {name, id}; and the cursors of two entities with different names decode to
\* different names.
C30_CursorRoundTrip == \A h \in Handlers : Returned(h, {"decodeCursor"}) =>
    LET name == last[h].args[1]  id == last[h].args[2]  other == last[h].args[3]
        out == last[h].out
    IN /\ (name # "" /\ id # "")
            => ~Raised(out.first) /\ out.first.name = name /\ out.first.id = id
       /\ (name # "" /\ other # "" /\ id # "" /\ name # other)
            => /\ ~Raised(out.first) /\ ~Raised(out.second)
               /\ out.first.name # out.second.name

\* C27: a walk never fails; what it has returned so far is the start of the data
\* set, in order, nothing skipped and nothing twice; every page before the last
\* brings size entities, so the walk takes no more calls than the data set has
\* entities, plus one; and when it has ended with a null token, it has returned the
\* whole data set.
C27_WalkReturnsAll == \A h \in Handlers : Has(last[h], "seen") =>
    LET walk == last[h]
        size == CHOOSE n \in 1..(MaxSize + 1) : ToString(n) = walk.payload.size
    IN /\ walk.kind # "failed"
       /\ IsPrefix(walk.seen, walk.data)
       /\ walk.kind = "walking" => Len(walk.seen) = calls * size
       /\ walk.kind = "ended" => walk.seen = walk.data

====
